---- MODULE Spec2Model ----
(***************************************************************************)
(* ProcIsoCity dossier tools: tools/procisocity_compare.py (two-dossier    *)
(* regression comparison) and tools/procisocity_insights.py (single        *)
(* dossier analytics).                                                     *)
(*                                                                         *)
(* A Python str is a sequence of one-character strings, so that strip(),   *)
(* lower() and float() are computed character by character.  In the       *)
(* comparison engine a Python float is a fixed-point number of tenths      *)
(* (Fin(15) is 1.5), or one of the non-finite floats Inf(+1), Inf(-1),     *)
(* NaN; gini and compute_stats on their own are computed in IEEE 754       *)
(* binary64, every operation rounded as the hardware rounds it.  Optional  *)
(* values, floats, ints and a propagating exception are records [k, v].    *)
(***************************************************************************)
EXTENDS Integers, Sequences, FiniteSets, TLC

VARIABLES
    cell,            \* the str (or None) handed to the parsing helpers
    parsed,          \* what each tool's _to_float / _to_int returned for cell
    column,          \* discover_numeric_columns: the rows of a one-column table
    min_valid_frac,  \* discover_numeric_columns: threshold, in hundredths
    numeric,         \* discover_numeric_columns: its result
    rows_ticks_a,    \* ticks.csv of dossier A as read_csv_rows returns it
    rows_ticks_b,    \* ticks.csv of dossier B
    ticks_cmp,       \* the result of compare_ticks
    header_tiles_a,  \* tile_metrics.csv of dossier A: its header
    rows_tiles_a,    \* tile_metrics.csv of dossier A: its rows
    header_tiles_b,  \* tile_metrics.csv of dossier B: its header
    rows_tiles_b,    \* tile_metrics.csv of dossier B: its rows
    arg_focus_metrics, \* compare_tile_metrics: its argument focus_metrics
    arg_top_tiles,   \* compare_tile_metrics: its argument top_tiles
    tiles_cmp,       \* the result of compare_tile_metrics
    file_ticks_a,    \* main: the file ticks.csv of dossier A
    file_ticks_b,    \* main: the file ticks.csv of dossier B
    file_tiles_a,    \* main: the file tile_metrics.csv of dossier A
    file_tiles_b,    \* main: the file tile_metrics.csv of dossier B
    args_top,        \* main: --top
    args_metric,     \* main: the --metric values, in order
    out_obj,         \* main: the result written to --out
    exit_code,       \* main: its return value, -1 while it runs
    stat_tool,       \* gini, compute_stats: the tool whose function is called
    stat_values,     \* gini, compute_stats: the argument values
    stat_stats,      \* the result of compute_stats
    stat_gini,       \* the result of gini
    grid_values,     \* morans_i_grid: the grid, row by row
    grid_w,          \* morans_i_grid: w
    grid_h,          \* morans_i_grid: h
    moran,           \* the result of morans_i_grid
    corr_a,          \* pearson_corr: the first series
    corr_b,          \* pearson_corr: the second series
    corr_ab,         \* the result of pearson_corr(a, b)
    corr_ba,         \* the result of pearson_corr(b, a)
    file_summary_a,  \* main: the file summary.json of dossier A
    file_summary_b,  \* main: the file summary.json of dossier B
    sum_a,           \* main: what load_json returned for dossier A
    sum_b,           \* main: what load_json returned for dossier B
    summary_cmp,     \* the result of compare_summary
    summary_path,    \* insights main: the file at summary_path
    ticks_path,      \* insights main: the file at ticks_path
    tiles_path,      \* insights main: the file at tiles_path
    args_topk,       \* insights main: --topk
    payload,         \* insights main: the payload written to --out
    exit_status,     \* insights main: the exit status, -1 while it runs
    exit_message,    \* insights main: the message of the exception that ended it
    land_grid,       \* insights main: the land_value grid, row by row
    repo,            \* fix_msvc_issues: the four files under --repo
    dry_run,         \* fix_msvc_issues: --dry-run of the last run
    changed_by,      \* fix_msvc_issues: what patch_file returned for each file
    written,         \* fix_msvc_issues: the files the last run wrote
    repo_before,     \* fix_msvc_issues: the files as the last run found them
    wrote_before,    \* fix_msvc_issues: a run before the last one was a writing run
    runs,            \* fix_msvc_issues: the number of runs so far
    patcher_status,  \* fix_msvc_issues: exit status of the last run, -1 before it
    pc               \* where the run is

parseVars == <<cell, parsed>>
discoverVars == <<column, min_valid_frac, numeric>>
ticksVars == <<rows_ticks_a, rows_ticks_b, ticks_cmp>>
tilesVars == <<header_tiles_a, rows_tiles_a, header_tiles_b, rows_tiles_b,
               arg_focus_metrics, arg_top_tiles, tiles_cmp>>
mainVars == <<file_ticks_a, file_ticks_b, file_tiles_a, file_tiles_b,
              args_top, args_metric, out_obj, exit_code>>
engineVars == <<ticksVars, tilesVars, mainVars>>
statVars == <<stat_tool, stat_values, stat_stats, stat_gini>>
moranVars == <<grid_values, grid_w, grid_h, moran>>
corrVars == <<corr_a, corr_b, corr_ab, corr_ba>>
analysisVars == <<statVars, moranVars, corrVars>>
summaryVars == <<file_summary_a, file_summary_b, sum_a, sum_b, summary_cmp>>
insightsVars == <<summary_path, ticks_path, tiles_path, args_topk, payload,
                  exit_status, exit_message, land_grid>>
patcherVars == <<repo, dry_run, changed_by, written, repo_before, wrote_before,
                 runs, patcher_status>>
toolVars == <<summaryVars, insightsVars, patcherVars>>

vars == <<parseVars, discoverVars, engineVars, analysisVars, toolVars, pc>>

(***************************************************************************)
(* Bounds of the model.                                                    *)
(***************************************************************************)
MaxColumnRows == 4
MaxTickRows == 2
MaxTileRows == 2

(***************************************************************************)
(* The(S) is the element of a one-element set.  An intermediate result is  *)
(* bound once as  The({ F(x) : x \in {e} }).                               *)
(***************************************************************************)
The(S) == CHOOSE r \in S : TRUE

(***************************************************************************)
(* Python values.                                                          *)
(***************************************************************************)
None == [k |-> "None", v |-> 0, e |-> ""]
Fin(n) == [k |-> "float", v |-> n, e |-> ""]
Inf(sign) == [k |-> "inf", v |-> sign, e |-> ""]
NaN == [k |-> "nan", v |-> 0, e |-> ""]
Integer(n) == [k |-> "int", v |-> n, e |-> ""]
Raised(exc) == [k |-> "raise", v |-> 0, e |-> exc]
Unset == [k |-> "unset", v |-> 0, e |-> ""]

\* math.isfinite on a float
IsFinite(f) == f.k = "float"

\* the missing cell csv.DictReader yields for a row shorter than the header
NoneCell == <<"None">>

(***************************************************************************)
(* str.strip(), str.lower()                                                *)
(***************************************************************************)
UpperChars == <<"A","B","C","D","E","F","G","H","I","J","K","L","M",
                "N","O","P","Q","R","S","T","U","V","W","X","Y","Z">>
LowerChars == <<"a","b","c","d","e","f","g","h","i","j","k","l","m",
                "n","o","p","q","r","s","t","u","v","w","x","y","z">>
DigitChars == <<"0","1","2","3","4","5","6","7","8","9">>
Whitespace == {" ", "\t"}

LowerChar(c) ==
    IF \E i \in 1..Len(UpperChars) : UpperChars[i] = c
    THEN LowerChars[CHOOSE i \in 1..Len(UpperChars) : UpperChars[i] = c]
    ELSE c

Lower(s) == [i \in 1..Len(s) |-> LowerChar(s[i])]

RECURSIVE LStrip(_)
LStrip(s) ==
    IF s # <<>> /\ s[1] \in Whitespace THEN LStrip(Tail(s)) ELSE s

RECURSIVE RStrip(_)
RStrip(s) ==
    IF s # <<>> /\ s[Len(s)] \in Whitespace
    THEN RStrip(SubSeq(s, 1, Len(s) - 1))
    ELSE s

Strip(s) == RStrip(LStrip(s))

(***************************************************************************)
(* float(str) of Python: optional sign, then inf / infinity / nan in any   *)
(* letter case, or digits [. digits] [e [sign] digits].  A decimal whose   *)
(* magnitude exceeds the double range is inf.  The result is kept to one   *)
(* fractional digit.                                                       *)
(***************************************************************************)
IsDigit(c) == \E i \in 1..Len(DigitChars) : DigitChars[i] = c
DigitVal(c) == (CHOOSE i \in 1..Len(DigitChars) : DigitChars[i] = c) - 1

RECURSIVE TakeDigits(_)
TakeDigits(s) ==
    IF s # <<>> /\ IsDigit(s[1]) THEN <<s[1]>> \o TakeDigits(Tail(s)) ELSE <<>>

RECURSIVE DropDigits(_)
DropDigits(s) ==
    IF s # <<>> /\ IsDigit(s[1]) THEN DropDigits(Tail(s)) ELSE s

RECURSIVE NatOf(_)
NatOf(ds) ==
    IF ds = <<>> THEN 0
    ELSE NatOf(SubSeq(ds, 1, Len(ds) - 1)) * 10 + DigitVal(ds[Len(ds)])

RECURSIVE Pow10(_)
Pow10(n) == IF n <= 0 THEN 1 ELSE 10 * Pow10(n - 1)

\* largest decimal exponent of a finite double (sys.float_info.max_10_exp)
MaxExp10 == 308

sInf == <<"i","n","f">>
sInfinity == <<"i","n","f","i","n","i","t","y">>
sNan == <<"n","a","n">>
sNull == <<"n","u","l","l">>
sNone == <<"n","o","n","e">>

\* the value of a well-formed decimal: ip . fp e exp
DecimalValue(sign, ip, fp, hasExp, exp, ed, rest) ==
    LET tenths == NatOf(ip) * 10 + (IF fp # <<>> THEN DigitVal(fp[1]) ELSE 0)
    IN  IF ~(/\ Len(ip) + Len(fp) > 0
             /\ hasExp => ed # <<>>
             /\ rest = <<>>)
        THEN Raised("ValueError")
        ELSE IF tenths # 0 /\ exp > MaxExp10 THEN Inf(sign)
        ELSE IF exp >= 0 THEN Fin(sign * tenths * Pow10(exp))
        ELSE Fin(sign * (tenths \div Pow10(-exp)))

\* r3 is what follows the mantissa: nothing, or e [sign] digits
DecimalExponent(sign, ip, fp, r3) ==
    LET hasExp == r3 # <<>> /\ r3[1] = "e"
        r4 == IF hasExp THEN Tail(r3) ELSE r3
        esigned == hasExp /\ r4 # <<>> /\ r4[1] \in {"+", "-"}
        esign == IF esigned /\ r4[1] = "-" THEN -1 ELSE 1
        r5 == IF esigned THEN Tail(r4) ELSE r4
    IN  The({ DecimalValue(sign, ip, fp, hasExp, esign * NatOf(ed), ed, rest) :
                ed \in {IF hasExp THEN TakeDigits(r5) ELSE <<>>},
                rest \in {IF hasExp THEN DropDigits(r5) ELSE r5} })

\* r1 is what follows the integer digits ip: nothing, or . digits, then r3
DecimalFraction(sign, ip, r1) ==
    LET hasDot == r1 # <<>> /\ r1[1] = "."
        r2 == IF hasDot THEN Tail(r1) ELSE r1
    IN  The({ DecimalExponent(sign, ip, fp, r3) :
                fp \in {IF hasDot THEN TakeDigits(r2) ELSE <<>>},
                r3 \in {IF hasDot THEN DropDigits(r2) ELSE r2} })

\* body is the stripped, lower-cased text after the sign
PyFloatBody(sign, body) ==
    IF body \in {sInf, sInfinity} THEN Inf(sign)
    ELSE IF body = sNan THEN NaN
    ELSE The({ DecimalFraction(sign, ip, r1) :
                 ip \in {TakeDigits(body)}, r1 \in {DropDigits(body)} })

PyFloatStripped(s) ==
    LET signed == s # <<>> /\ s[1] \in {"+", "-"}
    IN  The({ PyFloatBody(sign, body) :
                sign \in {IF signed /\ s[1] = "-" THEN -1 ELSE 1},
                body \in {Lower(IF signed THEN Tail(s) ELSE s)} })

PyFloat(str) == The({ PyFloatStripped(s) : s \in {Strip(str)} })

(***************************************************************************)
(* int(float) of Python: truncation toward zero; OverflowError on an       *)
(* infinity and ValueError on a NaN.                                       *)
(***************************************************************************)
PyIntFloor(f) ==
    IF f.k = "inf" THEN Raised("OverflowError")
    ELSE IF f.k = "nan" THEN Raised("ValueError")
    ELSE Integer(f.v \div 10)

PyInt(f) ==
    IF f.k = "inf" THEN Raised("OverflowError")
    ELSE IF f.k = "nan" THEN Raised("ValueError")
    ELSE IF f.v >= 0 THEN Integer(f.v \div 10)
    ELSE Integer(-((-f.v) \div 10))

(***************************************************************************)
(* procisocity_compare.py: _to_float, _to_int                              *)
(***************************************************************************)
IsAbsentWord(t) == t = <<>> \/ Lower(t) \in {sNan, sNull, sNone}

\* _to_float after s.strip(): t is the stripped text
CmpFloatOf(t) ==
    IF IsAbsentWord(t) THEN None
    ELSE The({ IF v.k = "raise" THEN None
               ELSE IF ~IsFinite(v) THEN None
               ELSE v : v \in {PyFloat(t)} })

CmpToFloat(s) ==
    IF s = NoneCell THEN None
    ELSE The({ CmpFloatOf(t) : t \in {Strip(s)} })

\* int(v) inside try / except
CmpIntOf(v) ==
    IF v = None THEN None
    ELSE The({ IF i.k = "raise" THEN None ELSE i : i \in {PyInt(v)} })

CmpToInt(s) == The({ CmpIntOf(v) : v \in {CmpToFloat(s)} })

(***************************************************************************)
(* procisocity_insights.py: _to_float, _to_int                             *)
(***************************************************************************)
InsFloatOf(t) ==
    IF IsAbsentWord(t) THEN None
    ELSE The({ IF v.k = "raise" THEN None ELSE v : v \in {PyFloat(t)} })

InsToFloat(s) ==
    IF s = NoneCell THEN Raised("AttributeError")
    ELSE The({ InsFloatOf(t) : t \in {Strip(s)} })

\* int(float(s)) inside try / except
InsIntOfFloat(v) ==
    IF v.k = "raise" THEN None
    ELSE The({ IF i.k = "raise" THEN None ELSE i : i \in {PyInt(v)} })

InsIntOf(t) ==
    IF IsAbsentWord(t) THEN None
    ELSE The({ InsIntOfFloat(v) : v \in {PyFloat(t)} })

InsToInt(s) ==
    IF s = NoneCell THEN Raised("AttributeError")
    ELSE The({ InsIntOf(t) : t \in {Strip(s)} })

(***************************************************************************)
(* A csv.DictReader row is an ordered dict: a sequence of <<key, value>>.  *)
(***************************************************************************)
Keys(r) == [i \in 1..Len(r) |-> r[i][1]]
Has(r, c) == \E i \in 1..Len(r) : r[i][1] = c
\* r.get(c, default)
Get(r, c, default) ==
    IF Has(r, c) THEN r[CHOOSE i \in 1..Len(r) : r[i][1] = c][2] ELSE default

\* the set of entries of a list
Range(seq) == {seq[i] : i \in 1..Len(seq)}

RECURSIVE Filter(_, _)
\* [x for x in seq if x in keep]
Filter(seq, keep) ==
    IF seq = <<>> THEN <<>>
    ELSE (IF seq[1] \in keep THEN <<seq[1]>> ELSE <<>>) \o Filter(Tail(seq), keep)

(***************************************************************************)
(* procisocity_compare.py: discover_numeric_columns.  min_valid_frac is in *)
(* hundredths, and valid / seen >= min_valid_frac is compared exactly.     *)
(***************************************************************************)
MinValidFracTicks == 75
MinValidFracTiles == 90

\* rows counted in seen: the value is not None and its strip() is not ""
SeenRows(rows, c) ==
    {i \in 1..Len(rows) :
        /\ Get(rows[i], c, <<>>) # NoneCell
        /\ Strip(Get(rows[i], c, <<>>)) # <<>>}

\* rows counted in valid: seen, and _to_float accepts the stripped value
ValidRows(rows, c) ==
    {i \in SeenRows(rows, c) : CmpToFloat(Strip(Get(rows[i], c, <<>>))) # None}

IsNumericColumnStrict(seen, valid, frac) ==
    /\ seen # 0
    /\ valid * 100 > frac * seen

IsNumericColumn(seen, valid, frac) ==
    /\ seen # 0
    /\ valid * 100 >= frac * seen

NumericColumns(rows, frac) ==
    {c \in Range(Keys(rows[1])) :
        IsNumericColumn(Cardinality(SeenRows(rows, c)),
                        Cardinality(ValidRows(rows, c)), frac)}

DiscoverNumericColumns(rows, frac) ==
    IF rows = <<>> THEN <<>>
    ELSE The({ Filter(Keys(rows[1]), num) : num \in {NumericColumns(rows, frac)} })

(***************************************************************************)
(* Exact fractions n / d of tenths, d > 0: the means of statistics.fmean.  *)
(***************************************************************************)
Rat(n, d) == [num |-> n, den |-> d]
Abs(x) == IF x < 0 THEN -x ELSE x
RatAbs(q) == Rat(Abs(q.num), q.den)
RatLess(p, q) == p.num * q.den < q.num * p.den
RatEq(p, q) == p.num * q.den = q.num * p.den

RECURSIVE Gcd(_, _)
Gcd(a, b) == IF b = 0 THEN a ELSE Gcd(b, a % b)

\* the same fraction in lowest terms
RatNorm(q) ==
    The({ Rat(q.num \div g, q.den \div g) : g \in {Gcd(Abs(q.num), q.den)} })

RatSub(p, q) == RatNorm(Rat(p.num * q.den - q.num * p.den, p.den * q.den))

RECURSIVE SumSeq(_)
SumSeq(xs) == IF xs = <<>> THEN 0 ELSE xs[1] + SumSeq(Tail(xs))

\* the finite values of a series of Optional[float], in series order
RECURSIVE FiniteValues(_)
FiniteValues(series) ==
    IF series = <<>> THEN <<>>
    ELSE (IF series[1].k = "float" THEN <<series[1].v>> ELSE <<>>)
         \o FiniteValues(Tail(series))

(***************************************************************************)
(* sorted(): ascending lists of a set of ints and of a set of names; and   *)
(* list.sort(key=..., reverse=True), which is stable.                      *)
(***************************************************************************)
RECURSIVE SortedIntsDescending(_)
SortedIntsDescending(S) ==
    IF S = {} THEN <<>>
    ELSE The({ <<m>> \o SortedIntsDescending(S \ {m}) :
                 m \in {CHOOSE x \in S : \A y \in S : x >= y} })

RECURSIVE SortedInts(_)
SortedInts(S) ==
    IF S = {} THEN <<>>
    ELSE The({ <<m>> \o SortedInts(S \ {m}) :
                 m \in {CHOOSE x \in S : \A y \in S : x <= y} })

\* code point order of the characters of column names
CharOrder == DigitChars \o UpperChars \o <<"_">> \o LowerChars
CharCode(c) == CHOOSE i \in 1..Len(CharOrder) : CharOrder[i] = c

RECURSIVE StrLess(_, _)
\* a < b for Python str
StrLess(a, b) ==
    IF b = <<>> THEN FALSE
    ELSE IF a = <<>> THEN TRUE
    ELSE IF a[1] # b[1] THEN CharCode(a[1]) < CharCode(b[1])
    ELSE StrLess(Tail(a), Tail(b))

RECURSIVE SortedNames(_)
SortedNames(S) ==
    IF S = {} THEN <<>>
    ELSE The({ <<m>> \o SortedNames(S \ {m}) :
                 m \in {CHOOSE x \in S : \A y \in S \ {x} : StrLess(x, y)} })

\* where entry i of a list goes when the list is sorted by keys, largest
\* first, entries of equal key keeping their order
RankDesc(keys, i) ==
    1 + Cardinality({j \in 1..Len(keys) : RatLess(keys[i], keys[j])})
      + Cardinality({j \in 1..(i - 1) : RatEq(keys[i], keys[j])})

SortDescBy(seq, keys) ==
    [p \in 1..Len(seq) |-> seq[CHOOSE i \in 1..Len(seq) : RankDesc(keys, i) = p]]

(***************************************************************************)
(* procisocity_compare.py: compute_stats over exact tenths (count, mean,   *)
(* min, the interpolated percentiles, max).  A percentile p is in          *)
(* hundredths; the binary floating-point evaluation of the same function   *)
(* is compute_stats below.                                                 *)
(***************************************************************************)
\* xs.sort()
SortedValues(xs) ==
    [p \in 1..Len(xs) |->
        xs[CHOOSE i \in 1..Len(xs) :
              p = 1 + Cardinality({j \in 1..Len(xs) : xs[j] < xs[i]})
                    + Cardinality({j \in 1..(i - 1) : xs[j] = xs[i]})]]

\* pct(p) of compute_stats, xs sorted
PctOf(xs, p) ==
    IF Len(xs) = 1 THEN Rat(xs[1], 1)
    ELSE LET i == ((Len(xs) - 1) * p) \div 100
             t == ((Len(xs) - 1) * p) % 100
             j == IF i + 1 < Len(xs) - 1 THEN i + 1 ELSE Len(xs) - 1
         IN  RatNorm(Rat(xs[i + 1] * (100 - t) + xs[j + 1] * t, 100))

StatsOf(xs) ==
    IF xs = <<>> THEN None
    ELSE [k |-> "stats", v |-> 0, e |-> "",
          count |-> Len(xs),
          mean |-> Rat(SumSeq(xs), Len(xs)),
          min |-> xs[1],
          p10 |-> PctOf(xs, 10),
          p50 |-> PctOf(xs, 50),
          p90 |-> PctOf(xs, 90),
          p99 |-> PctOf(xs, 99),
          max |-> xs[Len(xs)]]

ComputeStats(values) ==
    The({ StatsOf(SortedValues(xs)) : xs \in {FiniteValues(values)} })

(***************************************************************************)
(* procisocity_compare.py: rmse, as the mean of the squared differences    *)
(* (the square of what rmse returns)                                       *)
(***************************************************************************)
SquaredDiffsAbsentAsZero(a, b) ==
    LET n == IF Len(a) < Len(b) THEN Len(a) ELSE Len(b)
        val(x) == IF x.k = "float" THEN x.v ELSE 0
    IN  [i \in 1..n |-> (val(a[i]) - val(b[i])) * (val(a[i]) - val(b[i]))]

SquaredDiffs(a, b) ==
    LET n == IF Len(a) < Len(b) THEN Len(a) ELSE Len(b)
    IN  FiniteValues([i \in 1..n |->
            IF a[i].k = "float" /\ b[i].k = "float"
            THEN Fin((a[i].v - b[i].v) * (a[i].v - b[i].v))
            ELSE None])

MeanSquareOf(sq) == IF sq = <<>> THEN None ELSE Rat(SumSeq(sq), Len(sq))

RmseSquared(a, b) == The({ MeanSquareOf(sq) : sq \in {SquaredDiffs(a, b)} })

(***************************************************************************)
(* procisocity_compare.py: compare_ticks                                   *)
(***************************************************************************)
kDay == <<"d","a","y">>

\* keys[i] is the key of rows[i], or None: the dict built by
\*   for r in rows: ...; map[key] = r
\* keeps for each key the last row that has it
IndexRowsKeepingFirst(keys, rows) ==
    [key \in {keys[i] : i \in {j \in 1..Len(rows) : keys[j] # None}} |->
        rows[CHOOSE i \in 1..Len(rows) :
                /\ keys[i] = key
                /\ \A j \in 1..(i - 1) : keys[j] # key]]

IndexRows(keys, rows) ==
    [key \in {keys[i] : i \in {j \in 1..Len(rows) : keys[j] # None}} |->
        rows[CHOOSE i \in 1..Len(rows) :
                /\ keys[i] = key
                /\ \A j \in (i + 1)..Len(rows) : keys[j] # key]]

DayKeys(rows) == [i \in 1..Len(rows) |-> CmpToInt(Get(rows[i], kDay, <<>>))]

DayMap(rows) == The({ IndexRows(keys, rows) : keys \in {DayKeys(rows)} })

TicksOutEmpty(rows_a, rows_b) ==
    [present_a |-> rows_a # <<>>,
     present_b |-> rows_b # <<>>,
     common_days |-> 0,
     day_min |-> None,
     day_max |-> None,
     metrics |-> <<>>]

RECURSIVE MaxAbsScanLatest(_, _, _, _, _)
MaxAbsScanLatest(days, series_a, series_b, i, best) ==
    IF i > Len(days) THEN best
    ELSE IF series_a[i] = None \/ series_b[i] = None
    THEN MaxAbsScanLatest(days, series_a, series_b, i + 1, best)
    ELSE The({ MaxAbsScanLatest(days, series_a, series_b, i + 1,
                 IF best.max_abs_day = None \/ Abs(delta) >= best.max_abs
                 THEN [max_abs |-> Abs(delta),
                       max_abs_day |-> Integer(days[i]),
                       max_abs_delta |-> Fin(delta)]
                 ELSE best) :
               delta \in {series_b[i].v - series_a[i].v} })

\* the loop body of "for d in days" for the running maximum
RECURSIVE MaxAbsScan(_, _, _, _, _)
MaxAbsScan(days, series_a, series_b, i, best) ==
    IF i > Len(days) THEN best
    ELSE IF series_a[i] = None \/ series_b[i] = None
    THEN MaxAbsScan(days, series_a, series_b, i + 1, best)
    ELSE The({ MaxAbsScan(days, series_a, series_b, i + 1,
                 IF best.max_abs_day = None \/ Abs(delta) > best.max_abs
                 THEN [max_abs |-> Abs(delta),
                       max_abs_day |-> Integer(days[i]),
                       max_abs_delta |-> Fin(delta)]
                 ELSE best) :
               delta \in {series_b[i].v - series_a[i].v} })

TickMetricOf(c, days, series_a, series_b, a_stats, b_stats, scan) ==
    [metric |-> c,
     a_last |-> series_a[Len(days)],
     b_last |-> series_b[Len(days)],
     delta_last |-> IF series_a[Len(days)] = None \/ series_b[Len(days)] = None
                    THEN None
                    ELSE Fin(series_b[Len(days)].v - series_a[Len(days)].v),
     a_mean |-> IF a_stats = None THEN None ELSE a_stats.mean,
     b_mean |-> IF b_stats = None THEN None ELSE b_stats.mean,
     delta_mean |-> IF a_stats = None \/ b_stats = None THEN None
                    ELSE RatSub(b_stats.mean, a_stats.mean),
     rmse_squared |-> RmseSquared(series_a, series_b),
     max_abs_day |-> scan.max_abs_day,
     max_abs_delta |-> scan.max_abs_delta]

TickMetricOfSeries(c, days, series_a, series_b) ==
    The({ TickMetricOf(c, days, series_a, series_b, a_stats, b_stats, scan) :
            a_stats \in {ComputeStats(series_a)},
            b_stats \in {ComputeStats(series_b)},
            scan \in {MaxAbsScan(days, series_a, series_b, 1,
                        [max_abs |-> 0, max_abs_day |-> None,
                         max_abs_delta |-> None])} })

TickMetric(c, days, map_a, map_b) ==
    The({ TickMetricOfSeries(c, days, series_a, series_b) :
            series_a \in {[i \in 1..Len(days) |->
                             CmpToFloat(Get(map_a[Integer(days[i])], c, <<>>))]},
            series_b \in {[i \in 1..Len(days) |->
                             CmpToFloat(Get(map_b[Integer(days[i])], c, <<>>))]} })

TickSortKeyAbsentAsZero(m) ==
    IF m.delta_last = None THEN Rat(0, 1) ELSE Rat(Abs(m.delta_last.v), 1)

\* sort_key of compare_ticks
TickSortKey(m) ==
    IF m.delta_last = None THEN Rat(-10, 1) ELSE Rat(Abs(m.delta_last.v), 1)

TicksSorted(metrics) ==
    The({ SortDescBy(metrics, keys) :
            keys \in {[i \in 1..Len(metrics) |-> TickSortKey(metrics[i])]} })

TickColsOnEitherSide(rows_a, rows_b) ==
    SortedNames((Range(DiscoverNumericColumns(rows_a, MinValidFracTicks))
                   \cup Range(DiscoverNumericColumns(rows_b, MinValidFracTicks)))
                \ {kDay})

TickCols(rows_a, rows_b) ==
    SortedNames((Range(DiscoverNumericColumns(rows_a, MinValidFracTicks))
                   \cap Range(DiscoverNumericColumns(rows_b, MinValidFracTicks)))
                \ {kDay})

TicksOut(rows_a, rows_b, days, cols, map_a, map_b) ==
    [present_a |-> rows_a # <<>>,
     present_b |-> rows_b # <<>>,
     common_days |-> Len(days),
     day_min |-> Integer(days[1]),
     day_max |-> Integer(days[Len(days)]),
     metrics |-> TicksSorted([i \in 1..Len(cols) |->
                                TickMetric(cols[i], days, map_a, map_b)])]

TicksOfDays(rows_a, rows_b, days, map_a, map_b) ==
    IF days = <<>> THEN TicksOutEmpty(rows_a, rows_b)
    ELSE The({ TicksOut(rows_a, rows_b, days, cols, map_a, map_b) :
                 cols \in {TickCols(rows_a, rows_b)} })

TicksOfMaps(rows_a, rows_b, map_a, map_b) ==
    The({ TicksOfDays(rows_a, rows_b, days, map_a, map_b) :
            days \in {SortedInts({key.v : key \in DOMAIN map_a \cap DOMAIN map_b})} })

CompareTicksOf(rows_a, rows_b) ==
    IF rows_a = <<>> \/ rows_b = <<>> THEN TicksOutEmpty(rows_a, rows_b)
    ELSE IF ~(Has(rows_a[1], kDay) /\ Has(rows_b[1], kDay))
    THEN TicksOutEmpty(rows_a, rows_b)
    ELSE The({ TicksOfMaps(rows_a, rows_b, map_a, map_b) :
                 map_a \in {DayMap(rows_a)}, map_b \in {DayMap(rows_b)} })

(***************************************************************************)
(* procisocity_compare.py: _infer_tile_key_cols.  An Optional[str] that is *)
(* None is NoneCell.                                                       *)
(***************************************************************************)
kX == <<"x">>
kY == <<"y">>
kTileX == <<"t","i","l","e","_","x">>
kTileY == <<"t","i","l","e","_","y">>
kTx == <<"t","x">>
kTy == <<"t","y">>
\* names that only load_tile_metrics_csv of procisocity_insights.py accepts
kIx == <<"i","x">>
kIy == <<"i","y">>
kCol == <<"c","o","l">>
kRow == <<"r","o","w">>

\* next((c for c in candidates if c in header), None)
RECURSIVE FirstIn(_, _)
FirstIn(candidates, header) ==
    IF candidates = <<>> THEN NoneCell
    ELSE IF candidates[1] \in Range(header) THEN candidates[1]
    ELSE FirstIn(Tail(candidates), header)

InferTileKeyColsAnyName(header) ==
    [xcol |-> FirstIn(<<kX, kTileX, kTx, kIx, kCol>>, header),
     ycol |-> FirstIn(<<kY, kTileY, kTy, kIy, kRow>>, header)]

InferTileKeyCols(header) ==
    [xcol |-> FirstIn(<<kX, kTileX, kTx>>, header),
     ycol |-> FirstIn(<<kY, kTileY, kTy>>, header)]

(***************************************************************************)
(* procisocity_compare.py: compare_tile_metrics.  The result's note is a   *)
(* string, "None" when there is none; tile_deltas is an ordered dict, a    *)
(* sequence of <<metric, entry>>.                                          *)
(***************************************************************************)
kLevel == <<"l","e","v","e","l">>
kDistrict == <<"d","i","s","t","r","i","c","t">>
kVariation == <<"v","a","r","i","a","t","i","o","n">>

NoNote == "None"
NoteNoKeys == "Could not infer tile key columns (x/y)"
NoteNoOverlap == "No overlapping (x,y) tiles between dossiers"
NoteNotPresent == "metric not present in both dossiers"

TilesOutOf(rows_a, rows_b, metrics, tile_deltas, note) ==
    [present_a |-> rows_a # <<>>,
     present_b |-> rows_b # <<>>,
     metrics |-> metrics,
     tile_deltas |-> tile_deltas,
     note |-> note]

TileColsKeepLevel(rows_a, rows_b, ka, kb) ==
    SortedNames((Range(DiscoverNumericColumns(rows_a, MinValidFracTiles))
                   \cap Range(DiscoverNumericColumns(rows_b, MinValidFracTiles)))
                \ {ka.xcol, ka.ycol, kb.xcol, kb.ycol, kDistrict, kVariation})

TileCols(rows_a, rows_b, ka, kb) ==
    SortedNames((Range(DiscoverNumericColumns(rows_a, MinValidFracTiles))
                   \cap Range(DiscoverNumericColumns(rows_b, MinValidFracTiles)))
                \ {ka.xcol, ka.ycol, kb.xcol, kb.ycol, kLevel, kDistrict, kVariation})

\* the entry appended for column c, or nothing when a side has no statistics
TileMetricOf(c, st_a, st_b) ==
    IF st_a = None \/ st_b = None THEN <<>>
    ELSE << [metric |-> c,
             a |-> st_a,
             b |-> st_b,
             delta_mean |-> RatSub(st_b.mean, st_a.mean),
             delta_p50 |-> RatSub(st_b.p50, st_a.p50),
             delta_p90 |-> RatSub(st_b.p90, st_a.p90),
             delta_p99 |-> RatSub(st_b.p99, st_a.p99)] >>

TileMetric(c, rows_a, rows_b) ==
    The({ TileMetricOf(c, st_a, st_b) :
            st_a \in {ComputeStats([i \in 1..Len(rows_a) |->
                                      CmpToFloat(Get(rows_a[i], c, <<>>))])},
            st_b \in {ComputeStats([i \in 1..Len(rows_b) |->
                                      CmpToFloat(Get(rows_b[i], c, <<>>))])} })

RECURSIVE TileMetricsOfCols(_, _, _)
TileMetricsOfCols(cols, rows_a, rows_b) ==
    IF cols = <<>> THEN <<>>
    ELSE TileMetric(cols[1], rows_a, rows_b)
            \o TileMetricsOfCols(Tail(cols), rows_a, rows_b)

TileMetricsUnsorted(metrics) == metrics

TileMetricsSorted(metrics) ==
    The({ SortDescBy(metrics, keys) :
            keys \in {[i \in 1..Len(metrics) |-> RatAbs(metrics[i].delta_mean)]} })

TileMetrics(cols, rows_a, rows_b) ==
    The({ TileMetricsSorted(metrics) :
            metrics \in {TileMetricsOfCols(cols, rows_a, rows_b)} })

\* the (x, y) key of a row, or None
TileKeyOf(x, y) ==
    IF x = None \/ y = None THEN None
    ELSE [k |-> "xy", v |-> 0, e |-> "", x |-> x.v, y |-> y.v]

TileKeys(rows, kc) ==
    [i \in 1..Len(rows) |->
        The({ TileKeyOf(x, y) :
                x \in {CmpToInt(Get(rows[i], kc.xcol, <<>>))},
                y \in {CmpToInt(Get(rows[i], kc.ycol, <<>>))} })]

TileIndex(rows, kc) == The({ IndexRows(keys, rows) : keys \in {TileKeys(rows, kc)} })

\* [m for m in focus_metrics if m]
RECURSIVE FocusOf(_)
FocusOf(focus_metrics) ==
    IF focus_metrics = <<>> THEN <<>>
    ELSE (IF focus_metrics[1] # <<>> THEN <<focus_metrics[1]>> ELSE <<>>)
         \o FocusOf(Tail(focus_metrics))

\* the tuple appended to best for one common key, or nothing
BestOf(key, va, vb) ==
    IF va = None \/ vb = None THEN <<>>
    ELSE << [ad |-> Abs(vb.v - va.v), x |-> key.x, y |-> key.y,
             va |-> va, vb |-> vb] >>

\* "for (x, y) in keys", the keys taken in the order the set yields them
RECURSIVE BestScan(_, _, _, _)
BestScan(order, metric, idx_a, idx_b) ==
    IF order = <<>> THEN <<>>
    ELSE The({ BestOf(order[1], va, vb) :
                 va \in {CmpToFloat(Get(idx_a[order[1]], metric, <<>>))},
                 vb \in {CmpToFloat(Get(idx_b[order[1]], metric, <<>>))} })
         \o BestScan(Tail(order), metric, idx_a, idx_b)

BestSorted(best) ==
    The({ SortDescBy(best, keys) :
            keys \in {[i \in 1..Len(best) |-> Rat(best[i].ad, 1)]} })

PrefixWhole(seq, n) == seq

\* best[: n] for n >= 0
Prefix(seq, n) == [i \in 1..(IF n < Len(seq) THEN n ELSE Len(seq)) |-> seq[i]]

Max(a, b) == IF a >= b THEN a ELSE b

TileEntryOf(best) ==
    [k |-> "tiles",
     note |-> NoNote,
     tiles |-> [i \in 1..Len(best) |->
                  [x |-> best[i].x, y |-> best[i].y,
                   a |-> best[i].va, b |-> best[i].vb,
                   delta |-> Fin(best[i].vb.v - best[i].va.v)]]]

TileEntry(metric, cols, order, idx_a, idx_b, top_tiles) ==
    IF metric \notin Range(cols)
    THEN [k |-> "note", note |-> NoteNotPresent, tiles |-> <<>>]
    ELSE The({ TileEntryOf(Prefix(sorted, Max(0, top_tiles))) :
                 sorted \in {BestSorted(BestScan(order, metric, idx_a, idx_b))} })

\* d[key] = value on an ordered dict
DictSet(d, key, value) ==
    IF \E i \in 1..Len(d) : d[i][1] = key
    THEN [i \in 1..Len(d) |-> IF d[i][1] = key THEN <<key, value>> ELSE d[i]]
    ELSE Append(d, <<key, value>>)

RECURSIVE TileDeltasUntilAbsent(_, _, _, _, _, _, _)
TileDeltasUntilAbsent(focus, cols, order, idx_a, idx_b, top_tiles, tile_deltas) ==
    IF focus = <<>> THEN tile_deltas
    ELSE IF focus[1] \notin Range(cols)
    THEN DictSet(tile_deltas, focus[1],
                 TileEntry(focus[1], cols, order, idx_a, idx_b, top_tiles))
    ELSE The({ TileDeltasUntilAbsent(Tail(focus), cols, order, idx_a, idx_b,
                                     top_tiles, next) :
                 next \in {DictSet(tile_deltas, focus[1],
                             TileEntry(focus[1], cols, order, idx_a, idx_b,
                                       top_tiles))} })

RECURSIVE TileDeltas(_, _, _, _, _, _, _)
TileDeltas(focus, cols, order, idx_a, idx_b, top_tiles, tile_deltas) ==
    IF focus = <<>> THEN tile_deltas
    ELSE The({ TileDeltas(Tail(focus), cols, order, idx_a, idx_b, top_tiles, next) :
                 next \in {DictSet(tile_deltas, focus[1],
                             TileEntry(focus[1], cols, order, idx_a, idx_b,
                                       top_tiles))} })

\* the common keys, listed as order lists them
KeysInOrder(order, idx_a, idx_b) ==
    Filter(order, DOMAIN idx_a \cap DOMAIN idx_b)

TilesOfIndexWithoutNote(rows_a, rows_b, metrics, cols, focus, keys, idx_a, idx_b, top_tiles) ==
    The({ TilesOutOf(rows_a, rows_b, metrics, tile_deltas, NoNote) :
            tile_deltas \in {TileDeltas(focus, cols, keys, idx_a, idx_b,
                                        top_tiles, <<>>)} })

TilesOfIndex(rows_a, rows_b, metrics, cols, focus, keys, idx_a, idx_b, top_tiles) ==
    IF keys = <<>> THEN TilesOutOf(rows_a, rows_b, metrics, <<>>, NoteNoOverlap)
    ELSE The({ TilesOutOf(rows_a, rows_b, metrics, tile_deltas, NoNote) :
                 tile_deltas \in {TileDeltas(focus, cols, keys, idx_a, idx_b,
                                             top_tiles, <<>>)} })

TilesOfFocus(rows_a, rows_b, ka, kb, metrics, cols, focus, top_tiles, order) ==
    IF focus = <<>> THEN TilesOutOf(rows_a, rows_b, metrics, <<>>, NoNote)
    ELSE The({ TilesOfIndex(rows_a, rows_b, metrics, cols, focus,
                            KeysInOrder(order, idx_a, idx_b), idx_a, idx_b,
                            top_tiles) :
                 idx_a \in {TileIndex(rows_a, ka)},
                 idx_b \in {TileIndex(rows_b, kb)} })

TilesOfCols(rows_a, rows_b, ka, kb, cols, focus_metrics, top_tiles, order) ==
    The({ TilesOfFocus(rows_a, rows_b, ka, kb, metrics, cols, focus, top_tiles,
                       order) :
            metrics \in {TileMetrics(cols, rows_a, rows_b)},
            focus \in {FocusOf(focus_metrics)} })

TilesOfKeyCols(rows_a, rows_b, ka, kb, focus_metrics, top_tiles, order) ==
    IF NoneCell \in {ka.xcol, ka.ycol, kb.xcol, kb.ycol}
    THEN TilesOutOf(rows_a, rows_b, <<>>, <<>>, NoteNoKeys)
    ELSE The({ TilesOfCols(rows_a, rows_b, ka, kb, cols, focus_metrics,
                           top_tiles, order) :
                 cols \in {TileCols(rows_a, rows_b, ka, kb)} })

\* order lists every (x, y) key in the order in which a set of keys yields
\* its members
CompareTileMetricsOf(header_a, rows_a, header_b, rows_b, focus_metrics, top_tiles, order) ==
    IF rows_a = <<>> \/ rows_b = <<>>
    THEN TilesOutOf(rows_a, rows_b, <<>>, <<>>, NoNote)
    ELSE The({ TilesOfKeyCols(rows_a, rows_b, ka, kb, focus_metrics, top_tiles,
                              order) :
                 ka \in {InferTileKeyCols(header_a)},
                 kb \in {InferTileKeyCols(header_b)} })

(***************************************************************************)
(* procisocity_insights.py: _choose_column and the key-column inference of *)
(* load_tile_metrics_csv                                                   *)
(***************************************************************************)
IsAlnum(c) ==
    \E i \in 1..Len(CharOrder) : CharOrder[i] = c /\ c # "_"

RECURSIVE KeepAlnum(_)
KeepAlnum(s) ==
    IF s = <<>> THEN <<>>
    ELSE (IF IsAlnum(s[1]) THEN <<s[1]>> ELSE <<>>) \o KeepAlnum(Tail(s))

\* norm(s): the alphanumeric characters of s.lower()
Norm(s) == KeepAlnum(Lower(s))

\* hs[key] of hs = {h.lower(): h for h in headers}: the last such header
LastLower(headers, key) ==
    headers[CHOOSE i \in 1..Len(headers) :
              /\ Lower(headers[i]) = key
              /\ \A j \in (i + 1)..Len(headers) : Lower(headers[j]) # key]

\* hnorm[key] of hnorm = {norm(h): h for h in headers}
LastNorm(headers, key) ==
    headers[CHOOSE i \in 1..Len(headers) :
              /\ Norm(headers[i]) = key
              /\ \A j \in (i + 1)..Len(headers) : Norm(headers[j]) # key]

RECURSIVE ChooseNormalized(_, _)
ChooseNormalized(headers, candidates) ==
    IF candidates = <<>> THEN NoneCell
    ELSE IF \E i \in 1..Len(headers) : Norm(headers[i]) = Norm(candidates[1])
    THEN LastNorm(headers, Norm(candidates[1]))
    ELSE ChooseNormalized(headers, Tail(candidates))

RECURSIVE ChooseDirect(_, _, _)
ChooseDirect(headers, candidates, all) ==
    IF candidates = <<>> THEN ChooseNormalized(headers, all)
    ELSE IF \E i \in 1..Len(headers) : Lower(headers[i]) = Lower(candidates[1])
    THEN LastLower(headers, Lower(candidates[1]))
    ELSE ChooseDirect(headers, Tail(candidates), all)

ChooseColumn(headers, candidates) == ChooseDirect(headers, candidates, candidates)

\* intish: the headers whose value in the first row _to_int accepts
RECURSIVE Intish(_, _)
Intish(headers, first) ==
    IF headers = <<>> THEN <<>>
    ELSE (IF InsToInt(Get(first, headers[1], <<>>)) # None
          THEN <<headers[1]>> ELSE <<>>)
         \o Intish(Tail(headers), first)

NoKeyCols == [xcol |-> NoneCell, ycol |-> NoneCell]

LoadTileKeyColsFallback(headers, first, intish) ==
    IF \E i \in 1..Len(headers) :
          InsToInt(Get(first, headers[i], <<>>)).k = "raise"
    THEN NoKeyCols
    ELSE IF Len(intish) >= 2 THEN [xcol |-> intish[1], ycol |-> intish[2]]
    ELSE NoKeyCols

LoadTileKeyColsOf(headers, rows, x_col, y_col) ==
    IF x_col \in {NoneCell, <<>>} \/ y_col \in {NoneCell, <<>>}
    THEN IF rows = <<>> THEN NoKeyCols
         ELSE The({ LoadTileKeyColsFallback(headers, rows[1], intish) :
                      intish \in {Intish(headers, rows[1])} })
    ELSE [xcol |-> x_col, ycol |-> y_col]

\* x_col, y_col of load_tile_metrics_csv, NoKeyCols where it returns None
LoadTileKeyCols(headers, rows) ==
    The({ LoadTileKeyColsOf(headers, rows, x_col, y_col) :
            x_col \in {ChooseColumn(headers, <<kX, kTileX, kIx, kCol>>)},
            y_col \in {ChooseColumn(headers, <<kY, kTileY, kIy, kRow>>)} })

(***************************************************************************)
(* Natural numbers of any size: the list of their digits in base 2^15,     *)
(* lowest first, with no leading zero digit (0 is the empty list).         *)
(***************************************************************************)
LimbBase == 2^15

RECURSIVE Pow2(_)
Pow2(n) == IF n = 0 THEN 1 ELSE 2 * Pow2(n - 1)

RECURSIVE BNorm(_)
BNorm(a) ==
    IF a = <<>> THEN a
    ELSE IF a[Len(a)] = 0 THEN BNorm(SubSeq(a, 1, Len(a) - 1))
    ELSE a

RECURSIVE BOfNat(_)
BOfNat(n) == IF n = 0 THEN <<>> ELSE <<n % LimbBase>> \o BOfNat(n \div LimbBase)

RECURSIVE BToNat(_)
BToNat(a) == IF a = <<>> THEN 0 ELSE a[1] + LimbBase * BToNat(Tail(a))

Limb(a, i) == IF i <= Len(a) THEN a[i] ELSE 0

RECURSIVE BAddFrom(_, _, _, _)
BAddFrom(a, b, i, carry) ==
    IF i > Len(a) /\ i > Len(b)
    THEN (IF carry = 0 THEN <<>> ELSE <<carry>>)
    ELSE <<(Limb(a, i) + Limb(b, i) + carry) % LimbBase>>
            \o BAddFrom(a, b, i + 1, (Limb(a, i) + Limb(b, i) + carry) \div LimbBase)

BAdd(a, b) == BAddFrom(a, b, 1, 0)

RECURSIVE BSubFrom(_, _, _, _)
BSubFrom(a, b, i, borrow) ==
    IF i > Len(a) THEN <<>>
    ELSE <<(a[i] - Limb(b, i) - borrow + LimbBase) % LimbBase>>
            \o BSubFrom(a, b, i + 1, IF a[i] - Limb(b, i) - borrow < 0 THEN 1 ELSE 0)

\* a - b, for a >= b
BSub(a, b) == BNorm(BSubFrom(a, b, 1, 0))

RECURSIVE BCmpFrom(_, _, _)
BCmpFrom(a, b, i) ==
    IF i = 0 THEN 0
    ELSE IF a[i] < b[i] THEN -1
    ELSE IF a[i] > b[i] THEN 1
    ELSE BCmpFrom(a, b, i - 1)

\* -1, 0, 1 as a < b, a = b, a > b
BCmp(a, b) ==
    IF Len(a) < Len(b) THEN -1
    ELSE IF Len(a) > Len(b) THEN 1
    ELSE BCmpFrom(a, b, Len(a))

RECURSIVE BMulSmallFrom(_, _, _, _)
BMulSmallFrom(a, m, i, carry) ==
    IF i > Len(a) THEN (IF carry = 0 THEN <<>> ELSE <<carry>>)
    ELSE <<(a[i] * m + carry) % LimbBase>>
            \o BMulSmallFrom(a, m, i + 1, (a[i] * m + carry) \div LimbBase)

\* a * m, for m < 2^15
BMulSmall(a, m) == BNorm(BMulSmallFrom(a, m, 1, 0))

RECURSIVE BMulFrom(_, _, _)
BMulFrom(a, b, j) ==
    IF j > Len(b) THEN <<>>
    ELSE BAdd(BMulSmall(a, b[j]), <<0>> \o BMulFrom(a, b, j + 1))

BMul(a, b) == BNorm(BMulFrom(a, b, 1))

RECURSIVE BDivSmallFrom(_, _, _, _)
\* the digits of a \div m from digit i down, highest first, rem the remainder
\* carried in
BDivSmallFrom(a, m, i, rem) ==
    IF i = 0 THEN <<>>
    ELSE BDivSmallFrom(a, m, i - 1, (rem * LimbBase + a[i]) % m)
            \o <<(rem * LimbBase + a[i]) \div m>>

\* a \div m, for m <= 2^15
BDivSmall(a, m) == BNorm(BDivSmallFrom(a, m, Len(a), 0))

Zeros(n) == [i \in 1..n |-> 0]

\* a * 2^k
BShl(a, k) ==
    IF a = <<>> THEN a
    ELSE Zeros(k \div 15) \o BMulSmall(a, Pow2(k % 15))

\* a \div 2^k
BShr(a, k) ==
    IF k \div 15 >= Len(a) THEN <<>>
    ELSE BDivSmall(SubSeq(a, k \div 15 + 1, Len(a)), Pow2(k % 15))

RECURSIVE BitLenSmall(_)
BitLenSmall(n) == IF n = 0 THEN 0 ELSE 1 + BitLenSmall(n \div 2)

BBitLen(a) == IF a = <<>> THEN 0 ELSE 15 * (Len(a) - 1) + BitLenSmall(a[Len(a)])

\* bit k of a, bit 0 the lowest
BBit(a, k) == (Limb(a, k \div 15 + 1) \div Pow2(k % 15)) % 2

\* some bit of a below bit k is 1
BLowBits(a, k) == BShl(BShr(a, k), k) # a

(***************************************************************************)
(* A Python float in IEEE 754 binary64: a finite float is sign * m * 2^x   *)
(* with m = 0 (x = 0, sign 1) or 2^52 <= m < 2^53.  Every operation rounds *)
(* its exact result to the nearest float, ties to the even m.  Exponent    *)
(* overflow and underflow are out of the range of the values used.         *)
(***************************************************************************)
MantBits == 53

Dbl(sign, m, x) == [k |-> "double", v |-> 0, e |-> "", sign |-> sign, m |-> m, x |-> x]

DZero == Dbl(1, <<>>, 0)

IsDouble(v) == v.k = "double"

\* q, of 53 bits, plus one if up, at exponent x
RoundedUp(sign, q, x, up) ==
    IF ~up THEN Dbl(sign, q, x)
    ELSE The({ IF BBitLen(q1) > MantBits THEN Dbl(sign, BShr(q1, 1), x + 1)
               ELSE Dbl(sign, q1, x) :
               q1 \in {BAdd(q, <<1>>)} })

\* the float nearest to sign * (M + f) * 2^x, where 0 < f < 1 if sticky and
\* f = 0 otherwise (M of at least 55 bits if sticky), bits the length of M
RoundOfLen(sign, M, x, sticky, bits) ==
    IF bits <= MantBits THEN Dbl(sign, BShl(M, MantBits - bits), x - (MantBits - bits))
    ELSE The({ RoundedUp(sign, q, x + (bits - MantBits),
                         /\ BBit(M, bits - MantBits - 1) = 1
                         /\ \/ sticky
                            \/ BLowBits(M, bits - MantBits - 1)
                            \/ q[1] % 2 = 1) :
               q \in {BShr(M, bits - MantBits)} })

Round(sign, M, x, sticky) ==
    IF M = <<>> THEN DZero ELSE RoundOfLen(sign, M, x, sticky, BBitLen(M))

\* float(n) for an int n
DOfInt(n) == Round(IF n < 0 THEN -1 ELSE 1, BOfNat(IF n < 0 THEN -n ELSE n), 0, FALSE)

DNeg(a) == IF a.m = <<>> THEN a ELSE Dbl(-a.sign, a.m, a.x)

\* the exact sum of two numbers sign * m * 2^x, m of any size
ExactSumAligned(sa, ma, sb, mb, x) ==
    IF sa = sb THEN [sign |-> sa, m |-> BAdd(ma, mb), x |-> x]
    ELSE IF BCmp(ma, mb) >= 0 THEN [sign |-> sa, m |-> BSub(ma, mb), x |-> x]
    ELSE [sign |-> sb, m |-> BSub(mb, ma), x |-> x]

ExactSum(a, b) ==
    IF a.m = <<>> THEN [sign |-> b.sign, m |-> b.m, x |-> b.x]
    ELSE IF b.m = <<>> THEN [sign |-> a.sign, m |-> a.m, x |-> a.x]
    ELSE IF a.x >= b.x
    THEN The({ ExactSumAligned(a.sign, ma, b.sign, b.m, b.x) : ma \in {BShl(a.m, a.x - b.x)} })
    ELSE The({ ExactSumAligned(a.sign, a.m, b.sign, mb, a.x) : mb \in {BShl(b.m, b.x - a.x)} })

RoundExact(r) == Round(r.sign, r.m, r.x, FALSE)

\* a + b, a - b, a * b
DAdd(a, b) == The({ RoundExact(r) : r \in {ExactSum(a, b)} })
DSub(a, b) == DAdd(a, DNeg(b))
DMul(a, b) == The({ Round(a.sign * b.sign, M, a.x + b.x, FALSE) : M \in {BMul(a.m, b.m)} })

RECURSIVE DivBits(_, _, _, _)
\* n more bits of the quotient Q of a division by D with remainder R
DivBits(R, D, Q, n) ==
    IF n = 0 THEN [q |-> Q, r |-> R]
    ELSE The({ IF BCmp(R2, D) >= 0
               THEN DivBits(BSub(R2, D), D, BAdd(Q2, <<1>>), n - 1)
               ELSE DivBits(R2, D, Q2, n - 1) :
               R2 \in {BMulSmall(R, 2)}, Q2 \in {BMulSmall(Q, 2)} })

RECURSIVE DivChunks(_, _, _, _)
\* the same, eight bits at a time
DivChunks(R, D, Q, n) ==
    IF n <= 8 THEN DivBits(R, D, Q, n)
    ELSE The({ DivChunks(d.r, D, d.q, n - 8) : d \in {DivBits(R, D, Q, 8)} })

\* a / b for b # 0: 55 quotient bits after the leading one, and a sticky bit
DDiv(a, b) ==
    IF a.m = <<>> THEN DZero
    ELSE The({ Round(a.sign * b.sign, d.q, a.x - b.x - 55, d.r # <<>>) :
               d \in {IF BCmp(a.m, b.m) >= 0
                      THEN DivChunks(BSub(a.m, b.m), b.m, <<1>>, 55)
                      ELSE DivChunks(a.m, b.m, <<>>, 55)} })

\* a < b
DLess(a, b) ==
    IF a.m = <<>> THEN b.m # <<>> /\ b.sign = 1
    ELSE IF b.m = <<>> THEN a.sign = -1
    ELSE IF a.sign # b.sign THEN a.sign < b.sign
    ELSE IF a.x # b.x THEN (IF a.sign = 1 THEN a.x < b.x ELSE a.x > b.x)
    ELSE (IF a.sign = 1 THEN BCmp(a.m, b.m) < 0 ELSE BCmp(a.m, b.m) > 0)

\* int(math.floor(a)) for a >= 0
DFloor(a) ==
    IF a.m = <<>> THEN 0
    ELSE IF a.x >= 0 THEN BToNat(BShl(a.m, a.x))
    ELSE BToNat(BShr(a.m, -a.x))

\* the float of a decimal literal num / den
DOfDecimal(num, den) == DDiv(DOfInt(num), DOfInt(den))

(***************************************************************************)
(* procisocity_compare.py and procisocity_insights.py: clamp and gini, in  *)
(* binary64.  sum() adds from the left, each addition rounded.             *)
(***************************************************************************)
DFiniteValues(values) == SelectSeq(values, IsDouble)

\* min(xs)
DMin(xs) ==
    xs[CHOOSE i \in 1..Len(xs) : \A j \in 1..Len(xs) : ~DLess(xs[j], xs[i])]

\* xs.sort()
DSorted(xs) ==
    [p \in 1..Len(xs) |->
        xs[CHOOSE i \in 1..Len(xs) :
              p = 1 + Cardinality({j \in 1..Len(xs) : DLess(xs[j], xs[i])})
                    + Cardinality({j \in 1..(i - 1) : xs[j] = xs[i]})]]

RECURSIVE DSumFrom(_, _, _)
DSumFrom(xs, i, acc) ==
    IF i > Len(xs) THEN acc
    ELSE The({ DSumFrom(xs, i + 1, next) : next \in {DAdd(acc, xs[i])} })

\* sum(xs)
DSum(xs) == DSumFrom(xs, 1, DZero)

clamp(x, lo, hi) == IF DLess(x, lo) THEN lo ELSE IF DLess(hi, x) THEN hi ELSE x

RECURSIVE GiniCum(_, _, _)
\* for i, x in enumerate(xs, start=1): cum += i * x
GiniCum(xs, i, cum) ==
    IF i > Len(xs) THEN cum
    ELSE The({ GiniCum(xs, i + 1, next) :
               next \in {DAdd(cum, DMul(DOfInt(i), xs[i]))} })

\* g = (2.0 * cum) / (n * total) - (n + 1.0) / n, clamped
GiniOfCum(n, total, cum) ==
    The({ clamp(g, DZero, DOfInt(1)) :
          g \in {DSub(DDiv(DMul(DOfInt(2), cum), DMul(DOfInt(n), total)),
                      DDiv(DAdd(DOfInt(n), DOfInt(1)), DOfInt(n)))} })

GiniOfTotal(xs, total) ==
    IF ~DLess(DZero, total) THEN DZero
    ELSE The({ GiniOfCum(Len(xs), total, cum) : cum \in {GiniCum(xs, 1, DZero)} })

GiniOfSorted(xs) == The({ GiniOfTotal(xs, total) : total \in {DSum(xs)} })

\* if mn < 0.0: xs = [v - mn for v in xs]
GiniShifted(xs, mn) ==
    IF DLess(mn, DZero) THEN [i \in 1..Len(xs) |-> DSub(xs[i], mn)] ELSE xs

GiniOfFinite(xs) ==
    IF xs = <<>> THEN None
    ELSE The({ GiniOfSorted(sorted) :
               sorted \in {DSorted(GiniShifted(xs, DMin(xs)))} })

\* gini of procisocity_compare.py
gini(values) == The({ GiniOfFinite(xs) : xs \in {DFiniteValues(values)} })

\* gini of procisocity_insights.py
insights_gini(values) == IF values = <<>> THEN None ELSE gini(values)

(***************************************************************************)
(* procisocity_compare.py and procisocity_insights.py: compute_stats, in   *)
(* binary64.  statistics.fmean is the exact sum, rounded, over n.          *)
(***************************************************************************)
RECURSIVE ExactSumFrom(_, _, _)
ExactSumFrom(xs, i, acc) ==
    IF i > Len(xs) THEN acc
    ELSE The({ ExactSumFrom(xs, i + 1, next) : next \in {ExactSum(acc, xs[i])} })

\* math.fsum(xs)
fsum(xs) == The({ RoundExact(r) : r \in {ExactSumFrom(xs, 1, DZero)} })

\* statistics.fmean(xs)
fmean(xs) == DDiv(fsum(xs), DOfInt(Len(xs)))

RECURSIVE SqrtBits(_, _, _, _, _)
\* n more bit pairs of the square root of T, from pair p down: root the root
\* of the pairs above p, rem what they leave
SqrtBits(T, p, root, rem, n) ==
    IF n = 0 THEN [q |-> root, r |-> rem]
    ELSE The({ IF BCmp(rem2, cand) >= 0
               THEN SqrtBits(T, p - 1, BAdd(BMulSmall(root, 2), <<1>>), BSub(rem2, cand), n - 1)
               ELSE SqrtBits(T, p - 1, BMulSmall(root, 2), rem2, n - 1) :
               rem2 \in {BAdd(BMulSmall(rem, 4), BOfNat(2 * BBit(T, 2 * p + 1) + BBit(T, 2 * p)))},
               cand \in {BAdd(BMulSmall(root, 4), <<1>>)} })

RECURSIVE SqrtChunks(_, _, _, _)
\* the same for all the pairs from p down, eight at a time
SqrtChunks(T, p, root, rem) ==
    IF p < 8 THEN SqrtBits(T, p, root, rem, p + 1)
    ELSE The({ SqrtChunks(T, p - 8, s.q, s.r) : s \in {SqrtBits(T, p, root, rem, 8)} })

\* floor(sqrt(T)) in q, T - q * q in r
BSqrt(T) == SqrtChunks(T, (BBitLen(T) + 1) \div 2 - 1, <<>>, <<>>)

\* sum(x * x for x in xs), exact
RECURSIVE ExactSumSq(_, _, _)
ExactSumSq(xs, i, acc) ==
    IF i > Len(xs) THEN acc
    ELSE The({ ExactSumSq(xs, i + 1, next) :
               next \in {ExactSum(acc, [sign |-> 1, m |-> BMul(xs[i].m, xs[i].m),
                                        x |-> 2 * xs[i].x])} })

\* n * sxx - sx * sx, the exact variance times n * n
SsdTimesCount(xs, sx) ==
    The({ ExactSum([sign |-> 1, m |-> BMulSmall(sxx.m, Len(xs)), x |-> sxx.x],
                   [sign |-> -1, m |-> BMul(sx.m, sx.m), x |-> 2 * sx.x]) :
          sxx \in {ExactSumSq(xs, 1, DZero)} })

\* the float nearest to sqrt(m * 2^x) / n, x even: s more bit pairs make the
\* root at least 55 bits long
SqrtOfFracShifted(m, x, n, s) ==
    The({ The({ Round(1, root.q, x \div 2 - s, root.r # <<>> \/ BMulSmall(T, n * n) # A) :
                root \in {BSqrt(T)} }) :
          A \in {BShl(m, 2 * s)}, T \in {BDivSmall(BShl(m, 2 * s), n * n)} })

\* statistics._float_sqrt_of_frac
SqrtOfFrac(m, x, n) ==
    IF m = <<>> THEN DZero
    ELSE SqrtOfFracShifted(m, x, n,
            IF BBitLen(m) >= 128 THEN 0 ELSE (129 - BBitLen(m)) \div 2)

\* statistics.pstdev(xs)
pstdev(xs) ==
    The({ SqrtOfFrac(ssd.m, ssd.x, Len(xs)) :
          ssd \in {SsdTimesCount(xs, ExactSumFrom(xs, 1, DZero))} })

\* xs[i] * (1.0 - t) + xs[j] * t, the indexes from 0
PctAt(xs, i, j, t) ==
    DAdd(DMul(xs[i + 1], DSub(DOfInt(1), t)), DMul(xs[j + 1], t))

PctOfK(xs, k, i) ==
    The({ PctAt(xs, i, IF i + 1 < Len(xs) - 1 THEN i + 1 ELSE Len(xs) - 1, t) :
          t \in {DSub(k, DOfInt(i))} })

\* pct(p) of compute_stats, xs sorted
pct(xs, p) ==
    IF Len(xs) = 1 THEN xs[1]
    ELSE The({ PctOfK(xs, k, DFloor(k)) : k \in {DMul(DOfInt(Len(xs) - 1), p)} })

StatsOfSorted(xs) ==
    [k |-> "stats", v |-> 0, e |-> "",
     count |-> Len(xs),
     mean |-> fmean(xs),
     stdev |-> IF Len(xs) >= 2 THEN pstdev(xs) ELSE DZero,
     min |-> xs[1],
     p10 |-> pct(xs, DOfDecimal(10, 100)),
     p50 |-> pct(xs, DOfDecimal(50, 100)),
     p90 |-> pct(xs, DOfDecimal(90, 100)),
     p99 |-> pct(xs, DOfDecimal(99, 100)),
     max |-> xs[Len(xs)]]

StatsOfFinite(xs) == IF xs = <<>> THEN None ELSE StatsOfSorted(DSorted(xs))

compute_stats(values) == The({ StatsOfFinite(xs) : xs \in {DFiniteValues(values)} })

(***************************************************************************)
(* procisocity_insights.py: morans_i_grid, in binary64.  values holds the  *)
(* w * h cells of the grid row by row, as the insights main builds it.     *)
(***************************************************************************)
\* at(x, y): the cell, or None if it is not a finite float
at(values, w, x, y) ==
    IF IsDouble(values[y * w + x + 1]) THEN values[y * w + x + 1] ELSE None

RECURSIVE MoranDenom(_, _, _, _)
\* for i in idxs: dv = v - mean; denom += dv * dv
MoranDenom(xs, mean, i, denom) ==
    IF i > Len(xs) THEN denom
    ELSE The({ MoranDenom(xs, mean, i + 1, DAdd(denom, DMul(dv, dv))) :
               dv \in {DSub(xs[i], mean)} })

\* num += 2.0 * dv * dvn; s0 += 2.0, for a neighbour vn that is not None
MoranEdge(acc, mean, dv, vn) ==
    IF vn = None THEN acc
    ELSE The({ [num |-> DAdd(acc.num, DMul(DMul(DOfInt(2), dv), dvn)),
                s0 |-> DAdd(acc.s0, DOfInt(2))] :
               dvn \in {DSub(vn, mean)} })

\* the same with the right edge taken to the next cell of the list, across the
\* end of a row
MoranEdgesOfCellWrapping(values, w, h, mean, x, y, dv, acc) ==
    The({ IF y + 1 < h THEN MoranEdge(right, mean, dv, at(values, w, x, y + 1))
          ELSE right :
          right \in {IF y * w + x + 1 < w * h
                     THEN MoranEdge(acc, mean, dv, at(values, w, x + 1, y))
                     ELSE acc} })

\* the right edge and then the down edge of the finite cell v at (x, y)
MoranEdgesOfCell(values, w, h, mean, x, y, dv, acc) ==
    The({ IF y + 1 < h THEN MoranEdge(right, mean, dv, at(values, w, x, y + 1))
          ELSE right :
          right \in {IF x + 1 < w THEN MoranEdge(acc, mean, dv, at(values, w, x + 1, y))
                     ELSE acc} })

RECURSIVE MoranEdges(_, _, _, _, _, _)
\* for y in range(h): for x in range(w), the cell (x, y) being number c
MoranEdges(values, w, h, mean, c, acc) ==
    IF c >= w * h THEN acc
    ELSE The({ MoranEdges(values, w, h, mean, c + 1, next) :
               next \in {IF at(values, w, c % w, c \div w) = None THEN acc
                         ELSE MoranEdgesOfCell(values, w, h, mean, c % w, c \div w,
                                  DSub(at(values, w, c % w, c \div w), mean), acc)} })

\* return (n / s0) * (num / denom)
MoranOfEdges(n, denom, acc) ==
    IF ~DLess(DZero, acc.s0) THEN None
    ELSE DMul(DDiv(DOfInt(n), acc.s0), DDiv(acc.num, denom))

MoranOfDenom(values, w, h, n, mean, denom) ==
    IF ~DLess(DZero, denom) THEN None
    ELSE The({ MoranOfEdges(n, denom, acc) :
               acc \in {MoranEdges(values, w, h, mean, 0, [num |-> DZero, s0 |-> DZero])} })

MoranOfMean(values, w, h, xs, mean) ==
    The({ MoranOfDenom(values, w, h, Len(xs), mean, denom) :
          denom \in {MoranDenom(xs, mean, 1, DZero)} })

MoranOfFinite(values, w, h, xs) ==
    IF Len(xs) < 3 THEN None
    ELSE The({ MoranOfMean(values, w, h, xs, mean) : mean \in {fmean(xs)} })

morans_i_grid(values, w, h) ==
    IF w <= 0 \/ h <= 0 THEN None
    ELSE The({ MoranOfFinite(values, w, h, xs) : xs \in {DFiniteValues(values)} })

(***************************************************************************)
(* procisocity_insights.py: pearson_corr, in binary64.                     *)
(***************************************************************************)
\* math.sqrt(a) for a >= 0: the root of m * 2^s, s of 58 or 59 bits so that
\* the exponent left is even
DSqrtShifted(a, s) ==
    The({ Round(1, root.q, (a.x - s) \div 2, root.r # <<>>) :
          root \in {BSqrt(BShl(a.m, s))} })

DSqrt(a) ==
    IF a.m = <<>> THEN DZero
    ELSE DSqrtShifted(a, IF a.x % 2 = 0 THEN 58 ELSE 59)

\* the positions of zip(a, b) where both values are finite floats
PearsonPairs(a, b) ==
    SelectSeq([i \in 1..(IF Len(a) < Len(b) THEN Len(a) ELSE Len(b)) |-> <<a[i], b[i]>>],
              LAMBDA p : IsDouble(p[1]) /\ IsDouble(p[2]))

RECURSIVE SumSqDev(_, _, _, _)
\* sum((x - mx) ** 2 for x in xs)
SumSqDev(xs, mx, i, acc) ==
    IF i > Len(xs) THEN acc
    ELSE The({ SumSqDev(xs, mx, i + 1, DAdd(acc, DMul(dx, dx))) :
               dx \in {DSub(xs[i], mx)} })

RECURSIVE SumCov(_, _, _, _, _)
\* sum((x - mx) * (y - my) for x, y in pairs)
SumCov(pairs, mx, my, i, acc) ==
    IF i > Len(pairs) THEN acc
    ELSE The({ SumCov(pairs, mx, my, i + 1, next) :
               next \in {DAdd(acc, DMul(DSub(pairs[i][1], mx), DSub(pairs[i][2], my)))} })

\* the same with cov / sx2, the slope of y over x, returned
PearsonOfSumsAsSlope(pairs, mx, my, sx2, sy2) ==
    IF ~DLess(DZero, sx2) \/ ~DLess(DZero, sy2) THEN None
    ELSE The({ DDiv(cov, sx2) : cov \in {SumCov(pairs, mx, my, 1, DZero)} })

\* return cov / math.sqrt(sx2 * sy2)
PearsonOfSums(pairs, mx, my, sx2, sy2) ==
    IF ~DLess(DZero, sx2) \/ ~DLess(DZero, sy2) THEN None
    ELSE The({ DDiv(cov, DSqrt(DMul(sx2, sy2))) :
               cov \in {SumCov(pairs, mx, my, 1, DZero)} })

PearsonOfMeans(pairs, xs, ys, mx, my) ==
    The({ PearsonOfSums(pairs, mx, my, sx2, sy2) :
          sx2 \in {SumSqDev(xs, mx, 1, DZero)}, sy2 \in {SumSqDev(ys, my, 1, DZero)} })

PearsonOfSeries(pairs, xs, ys) ==
    The({ PearsonOfMeans(pairs, xs, ys, mx, my) : mx \in {fmean(xs)}, my \in {fmean(ys)} })

PearsonOfPairs(pairs) ==
    IF Len(pairs) < 3 THEN None
    ELSE PearsonOfSeries(pairs, [i \in 1..Len(pairs) |-> pairs[i][1]],
                         [i \in 1..Len(pairs) |-> pairs[i][2]])

pearson_corr(a, b) == The({ PearsonOfPairs(pairs) : pairs \in {PearsonPairs(a, b)} })

(***************************************************************************)
(* procisocity_compare.py: read_csv_rows and main.  A file is missing, or  *)
(* exists and cannot be read as text, or is CSV text: a header line and    *)
(* data lines, each a list of cells no longer than the header.             *)
(***************************************************************************)
MissingFile == [k |-> "missing", header |-> <<>>, lines |-> <<>>]
UnreadableFile == [k |-> "unreadable", header |-> <<>>, lines |-> <<>>]
CsvFile(header, lines) == [k |-> "csv", header |-> header, lines |-> lines]

\* the dict of one data line: a field the line lacks is None in the
\* DictReader row and "" in the row read_csv_rows returns
CsvRow(header, line) ==
    [i \in 1..Len(header) |->
        <<header[i], IF i <= Len(line) THEN line[i] ELSE <<>> >>]

ReadCsvRows(file) ==
    IF file.k = "unreadable" THEN Raised("UnicodeDecodeError")
    ELSE [k |-> "table", v |-> 0, e |-> "",
          header |-> file.header,
          rows |-> [i \in 1..Len(file.lines) |-> CsvRow(file.header, file.lines[i])]]

NoTable == [k |-> "table", v |-> 0, e |-> "", header |-> <<>>, rows |-> <<>>]

\* one try block of main: both files are read when they exist, and any
\* exception leaves both sides empty
LoadPair(file_a, file_b) ==
    IF \/ file_a.k = "unreadable"
       \/ file_b.k = "unreadable"
    THEN [a |-> NoTable, b |-> NoTable]
    ELSE [a |-> IF file_a.k = "missing" THEN NoTable ELSE ReadCsvRows(file_a),
          b |-> IF file_b.k = "missing" THEN NoTable ELSE ReadCsvRows(file_b)]

NoOutput == [k |-> "none"]
OutObj(ticks, tiles) == [k |-> "written", ticks |-> ticks, tiles |-> tiles]

(***************************************************************************)
(* procisocity_compare.py: load_json and compare_summary.  summary.json is *)
(* missing, is no valid JSON, holds a JSON value that is no object, or     *)
(* holds an object, a list of <<key, value>> with a JSON null as None, a   *)
(* JSON integer as Integer(n) and a JSON real as Fin(tenths).              *)
(***************************************************************************)
JsonMissing == [k |-> "missing", items |-> <<>>]
JsonInvalid == [k |-> "invalid", items |-> <<>>]
JsonArray == [k |-> "list", items |-> <<>>]
JsonObject(items) == [k |-> "dict", items |-> items]
NoSummary == [k |-> "None", items |-> <<>>]

\* the object, or None when the file cannot be opened or parsed or holds
\* anything else than an object
load_json(file) == IF file.k = "dict" THEN file ELSE NoSummary

\* bool(d) of an Optional[dict]: None and the empty dict are false
Truthy(d) == d.k = "dict" /\ d.items # <<>>

\* x == y on JSON scalars: an int equals the float of the same value
PyEq(x, y) ==
    IF x.k \in {"int", "float"} /\ y.k \in {"int", "float"}
    THEN (IF x.k = "int" THEN 10 * x.v ELSE x.v) = (IF y.k = "int" THEN 10 * y.v ELSE y.v)
    ELSE x = y

Bool(b) == [k |-> "bool", v |-> IF b THEN 1 ELSE 0, e |-> ""]

\* out[key + "_a"] of compare_summary: fetched only under "if a:"
SummaryField(d, key) == IF Truthy(d) THEN Get(d.items, key, None) ELSE None

compare_summary(a, b) ==
    [present_a |-> a.k # "None",
     present_b |-> b.k # "None",
     same_seed |->
        IF Truthy(a) /\ Truthy(b)
        THEN Bool(/\ PyEq(SummaryField(a, "seed"), SummaryField(b, "seed"))
                  /\ SummaryField(a, "seed") # None)
        ELSE None,
     same_size |->
        IF Truthy(a) /\ Truthy(b)
        THEN Bool(/\ PyEq(SummaryField(a, "width"), SummaryField(b, "width"))
                  /\ PyEq(SummaryField(a, "height"), SummaryField(b, "height"))
                  /\ SummaryField(a, "width") # None)
        ELSE None,
     seed_a |-> SummaryField(a, "seed"),
     seed_b |-> SummaryField(b, "seed"),
     width_a |-> SummaryField(a, "width"),
     width_b |-> SummaryField(b, "width"),
     height_a |-> SummaryField(a, "height"),
     height_b |-> SummaryField(b, "height"),
     hash_a |-> SummaryField(a, "hash"),
     hash_b |-> SummaryField(b, "hash"),
     tool_a |-> SummaryField(a, "tool"),
     tool_b |-> SummaryField(b, "tool")]

(***************************************************************************)
(* procisocity_insights.py: the loaders.  A row of csv.DictReader has     *)
(* None (NoneCell) for the fields its line lacks; a line is no longer      *)
(* than the header.                                                        *)
(***************************************************************************)
\* any JSON value, or None when the file is missing or cannot be parsed
load_summary_json(file) == IF file.k \in {"dict", "list"} THEN file ELSE NoSummary

DictRow(header, line) ==
    [i \in 1..Len(header) |->
        <<header[i], IF i <= Len(line) THEN line[i] ELSE NoneCell>>]

DictRows(file) == [i \in 1..Len(file.lines) |-> DictRow(file.header, file.lines[i])]

NoRows == [k |-> "None", rows |-> <<>>]

load_ticks_csv(file) ==
    IF file.k # "csv" THEN NoRows ELSE [k |-> "rows", rows |-> DictRows(file)]

\* desired of _discover_metric_columns: canonical metric, candidate columns
Desired ==
    << <<"land_value", <<<<"l","a","n","d","v","a","l","u","e">>,
                         <<"l","a","n","d","_","v","a","l","u","e">>,
                         <<"l","a","n","d","V","a","l","u","e">>,
                         <<"l","a","n","d","_","v","a","l","u","e","_","n","o","r","m">>,
                         <<"l","a","n","d","v","a","l","u","e","_","n","o","r","m">>>> >>,
       <<"traffic", <<<<"t","r","a","f","f","i","c">>,
                      <<"t","r","a","f","f","i","c","_","f","l","o","w">>,
                      <<"c","o","m","m","u","t","e","_","t","r","a","f","f","i","c">>,
                      <<"t","r","a","f","f","i","c","_","u","t","i","l">>,
                      <<"c","o","n","g","e","s","t","i","o","n">>>> >>,
       <<"goods_fill", <<<<"g","o","o","d","s","_","f","i","l","l">>,
                         <<"g","o","o","d","s","f","i","l","l">>,
                         <<"g","o","o","d","s">>,
                         <<"g","o","o","d","s","_","p","r","e","s","s","u","r","e">>,
                         <<"g","o","o","d","s","_","u","t","i","l">>>> >>,
       <<"flood_depth", <<<<"f","l","o","o","d","_","d","e","p","t","h">>,
                          <<"f","l","o","o","d","d","e","p","t","h">>,
                          <<"s","e","a","_","d","e","p","t","h">>,
                          <<"f","l","o","o","d">>>> >>,
       <<"ponding_depth", <<<<"p","o","n","d","i","n","g","_","d","e","p","t","h">>,
                            <<"p","o","n","d","i","n","g","d","e","p","t","h">>,
                            <<"p","o","n","d","_","d","e","p","t","h">>,
                            <<"p","o","n","d","i","n","g">>>> >>,
       <<"services", <<<<"s","e","r","v","i","c","e","s">>,
                       <<"s","e","r","v","i","c","e">>,
                       <<"s","e","r","v","i","c","e","_","s","a","t">>,
                       <<"s","e","r","v","i","c","e","s","_","s","a","t">>,
                       <<"s","a","t","i","s","f","a","c","t","i","o","n","_","s","e","r","v","i","c","e","s">>>> >>,
       <<"happiness", <<<<"h","a","p","p","i","n","e","s","s">>,
                        <<"h","a","p","p","y">>>> >>,
       <<"population", <<<<"p","o","p","u","l","a","t","i","o","n">>,
                         <<"p","o","p">>,
                         <<"r","e","s","i","d","e","n","t","s">>>> >>,
       <<"jobs", <<<<"j","o","b","s">>,
                   <<"e","m","p","l","o","y","m","e","n","t">>>> >> >>

\* the (metric, column) of the entries with a column, in the order of entries
RECURSIVE ChooseColumns(_, _)
ChooseColumns(headers, entries) ==
    IF entries = <<>> THEN <<>>
    ELSE The({ IF col \in {NoneCell, <<>>} THEN <<>> ELSE << <<entries[1][1], col>> >> :
                 col \in {ChooseColumn(headers, entries[1][2])} })
         \o ChooseColumns(headers, Tail(entries))

DiscoverMetricColumns(headers) == ChooseColumns(headers, Desired)

NoTilePack ==
    [k |-> "None", rows |-> <<>>, metric_map |-> <<>>, x_col |-> NoneCell, y_col |-> NoneCell]

TilePackOf(file, rows, kc) ==
    IF kc = NoKeyCols THEN NoTilePack
    ELSE [k |-> "pack", rows |-> rows,
          metric_map |-> DiscoverMetricColumns(file.header),
          x_col |-> kc.xcol, y_col |-> kc.ycol]

\* rows, metric_map, x_col, y_col; None when the file is missing, cannot be
\* read, or has no key columns
load_tile_metrics_csv(file) ==
    IF file.k # "csv" THEN NoTilePack
    ELSE The({ TilePackOf(file, rows, LoadTileKeyCols(file.header, rows)) :
                 rows \in {DictRows(file)} })

\* series_candidates of main: series name, candidate columns
SeriesCandidates ==
    << <<"population", <<<<"p","o","p","u","l","a","t","i","o","n">>,
                         <<"p","o","p">>,
                         <<"r","e","s","i","d","e","n","t","s">>>> >>,
       <<"jobs", <<<<"j","o","b","s">>>> >>,
       <<"money", <<<<"m","o","n","e","y">>,
                    <<"c","a","s","h">>,
                    <<"f","u","n","d","s">>>> >>,
       <<"happiness", <<<<"h","a","p","p","i","n","e","s","s">>,
                        <<"h","a","p","p","y">>>> >> >>

(***************************************************************************)
(* procisocity_insights.py: sparkline, in binary64.  The result is the     *)
(* list of the indexes of its blocks, -1 for a blank; values holds None    *)
(* where main passes nan, and no more than width values.  A float is a     *)
(* finite double, Inf(sign) or NaN.                                        *)
(***************************************************************************)
BlockCount == 8

DMax(xs) ==
    xs[CHOOSE i \in 1..Len(xs) : \A j \in 1..Len(xs) : ~DLess(xs[i], xs[j])]

\* int(clamp(t, 0.0, 0.999999) * len(blocks))
BlockOfT(t) ==
    DFloor(DMul(clamp(t, DZero, DOfDecimal(999999, 1000000)), DOfInt(BlockCount)))

BlockOf(v, mn, span) ==
    IF ~IsDouble(v) THEN -1 ELSE The({ BlockOfT(t) : t \in {DDiv(DSub(v, mn), span)} })

SparklineOfRange(values, mn, mx) ==
    IF ~DLess(mn, mx) THEN [i \in 1..Len(values) |-> 0]
    ELSE The({ [i \in 1..Len(values) |-> BlockOf(values[i], mn, span)] :
                 span \in {DSub(mx, mn)} })

SparklineOfFinite(values, xs) ==
    IF xs = <<>> THEN <<>>
    ELSE The({ SparklineOfRange(values, mn, mx) : mn \in {DMin(xs)}, mx \in {DMax(xs)} })

sparkline(values) ==
    The({ SparklineOfFinite(values, xs) : xs \in {DFiniteValues(values)} })

(***************************************************************************)
(* procisocity_insights.py: main.  Its outcome is the exit status, the     *)
(* message of the exception that ended it, the payload it wrote, and the   *)
(* land_value grid it built for Moran's I.  A dict is the list of its      *)
(* (key, value) in insertion order.                                        *)
(***************************************************************************)
NoReport == [k |-> "none"]
Outcome(status, message, report) ==
    [status |-> status, message |-> message, payload |-> report, grid |-> <<>>]

CouldNotRead == "Could not read tile_metrics.csv"
NoUsableCoordinates == "tile_metrics.csv did not contain usable x/y coordinates."
\* an exception main does not catch: the interpreter prints it and exits 1
Traceback(exc) == Outcome(1, exc, NoReport)
\* SystemExit(message): the interpreter prints the message and exits 1
SystemExit(message) == Outcome(1, message, NoReport)

Cell(r, col) == Get(r, col, <<>>)

\* the float of a value held in tenths; None, inf and nan as they are
DOfFin(v) == IF v.k = "float" THEN DOfDecimal(v.v, 10) ELSE v

\* the rows whose x and y _to_int accepts
ParseableRows(rows, x_col, y_col) ==
    { i \in 1..Len(rows) : /\ InsToInt(Cell(rows[i], x_col)) # None
                          /\ InsToInt(Cell(rows[i], y_col)) # None }

MaxOf(S) == CHOOSE m \in S : \A o \in S : o <= m

\* coords: (-1, -1) marks a row without parseable coordinates
CoordOf(xi, yi) == IF xi = None \/ yi = None THEN <<-1, -1>> ELSE <<xi.v, yi.v>>

Coords(rows, x_col, y_col) ==
    [i \in 1..Len(rows) |->
        CoordOf(InsToInt(Cell(rows[i], x_col)), InsToInt(Cell(rows[i], y_col)))]

\* metric_values: for each metric the floats of its column, in row order
MetricValues(rows, metric_map) ==
    [j \in 1..Len(metric_map) |->
        <<metric_map[j][1],
          [i \in 1..Len(rows) |-> DOfFin(InsToFloat(Cell(rows[i], metric_map[j][2])))]>>]

StatsJson(metric_map, metric_values) ==
    [j \in 1..Len(metric_map) |->
        <<metric_map[j][1],
          The({ [column |-> metric_map[j][2],
                 stats |-> compute_stats(xs_f),
                 gini |-> insights_gini(xs_f)] :
                  xs_f \in {DFiniteValues(metric_values[j][2])} })>>]

\* items.sort(reverse=True, key=value): stable, equal values keep their order
RECURSIVE HotspotInsert(_, _)
HotspotInsert(sorted, item) ==
    IF sorted = <<>> THEN <<item>>
    ELSE IF DLess(sorted[1].value, item.value) THEN <<item>> \o sorted
    ELSE <<sorted[1]>> \o HotspotInsert(Tail(sorted), item)

RECURSIVE HotspotSort(_)
HotspotSort(items) ==
    IF items = <<>> THEN <<>>
    ELSE HotspotInsert(HotspotSort(SubSeq(items, 1, Len(items) - 1)), items[Len(items)])

\* the items of topk: the rows with x >= 0, y >= 0 and a finite value
RECURSIVE HotspotItemsAnyCoord(_, _, _)
HotspotItemsAnyCoord(coords, vals, i) ==
    IF i > Len(coords) THEN <<>>
    ELSE (IF ~IsDouble(vals[i]) THEN <<>>
          ELSE << [x |-> coords[i][1], y |-> coords[i][2], value |-> vals[i]] >>)
         \o HotspotItemsAnyCoord(coords, vals, i + 1)

RECURSIVE HotspotItems(_, _, _)
HotspotItems(coords, vals, i) ==
    IF i > Len(coords) THEN <<>>
    ELSE (IF coords[i][1] < 0 \/ coords[i][2] < 0 \/ ~IsDouble(vals[i]) THEN <<>>
          ELSE << [x |-> coords[i][1], y |-> coords[i][2], value |-> vals[i]] >>)
         \o HotspotItems(coords, vals, i + 1)

topk(coords, vals, k) ==
    The({ SubSeq(sorted, 1, IF Max(0, k) < Len(sorted) THEN Max(0, k) ELSE Len(sorted)) :
            sorted \in {HotspotSort(HotspotItems(coords, vals, 1))} })

Hotspots(coords, metric_values, k) ==
    [j \in 1..Len(metric_values) |->
        <<metric_values[j][1], topk(coords, metric_values[j][2], k)>>]

\* grid[idx] = v: an index outside the list raises IndexError
GridAssign(grid, idx, v) ==
    IF grid.k = "raise" THEN grid
    ELSE IF idx >= Len(grid.cells) \/ idx < -Len(grid.cells)
    THEN [k |-> "raise", cells |-> <<>>]
    ELSE [k |-> "grid",
          cells |-> [grid.cells EXCEPT ![IF idx >= 0 THEN idx + 1
                                         ELSE Len(grid.cells) + idx + 1] = v]]

\* the assignments of the loop over zip(coords, land_vals), from row i on
RECURSIVE GridWrites(_, _, _, _, _)
GridWrites(grid, coords, vals, w, i) ==
    IF i > Len(coords) THEN grid
    ELSE IF coords[i][1] < 0 \/ coords[i][2] < 0
    THEN GridWrites(grid, coords, vals, w, i + 1)
    ELSE GridWrites(GridAssign(grid, coords[i][2] * w + coords[i][1],
                               IF IsDouble(vals[i]) THEN vals[i] ELSE None),
                    coords, vals, w, i + 1)

\* [None] * (w * h)
NoneList(n) == [i \in 1..(IF n < 0 THEN 0 ELSE n) |-> None]

LandValueGrid(coords, vals, w, h) ==
    GridWrites([k |-> "grid", cells |-> NoneList(w * h)], coords, vals, w, 1)

HasMetric(metric_map, m) == \E j \in 1..Len(metric_map) : metric_map[j][1] = m
ValuesOf(metric_values, m) ==
    metric_values[CHOOSE j \in 1..Len(metric_values) : metric_values[j][1] = m][2]

KeyMetricNames ==
    <<"land_value", "traffic", "goods_fill", "flood_depth", "ponding_depth", "services">>

RECURSIVE KeyMetrics(_, _)
KeyMetrics(metric_map, names) ==
    IF names = <<>> THEN <<>>
    ELSE (IF HasMetric(metric_map, names[1]) THEN <<names[1]>> ELSE <<>>)
         \o KeyMetrics(metric_map, Tail(names))

\* corr: for i < j the correlation of key metric i with key metric j
RECURSIVE CorrFrom(_, _, _, _)
CorrFrom(metric_values, key_metrics, i, j) ==
    IF i > Len(key_metrics) THEN <<>>
    ELSE IF j > Len(key_metrics) THEN CorrFrom(metric_values, key_metrics, i + 1, i + 2)
    ELSE << <<key_metrics[i], key_metrics[j],
              pearson_corr(ValuesOf(metric_values, key_metrics[i]),
                           ValuesOf(metric_values, key_metrics[j]))>> >>
         \o CorrFrom(metric_values, key_metrics, i, j + 1)

Correlations(metric_map, metric_values) ==
    The({ CorrFrom(metric_values, key_metrics, 1, 2) :
            key_metrics \in {KeyMetrics(metric_map, KeyMetricNames)} })

NoTickSummary == [k |-> "ticks", rows |-> 0, day_col |-> NoneCell, series |-> <<>>]

\* a < b on floats: false when either is nan
FloatLess(a, b) ==
    IF a.k = "nan" \/ b.k = "nan" THEN FALSE
    ELSE IF a.k = "inf" THEN a.v = -1 /\ ~(b.k = "inf" /\ b.v = -1)
    ELSE IF b.k = "inf" THEN b.v = 1
    ELSE DLess(a, b)

\* min(xs, default=None): the first value no later one is less than
RECURSIVE PyMinFrom(_, _, _)
PyMinFrom(xs, i, best) ==
    IF i > Len(xs) THEN best
    ELSE PyMinFrom(xs, i + 1, IF FloatLess(xs[i], best) THEN xs[i] ELSE best)

PyMin(xs) == IF xs = <<>> THEN None ELSE PyMinFrom(xs, 2, xs[1])

RECURSIVE PyMaxFrom(_, _, _)
PyMaxFrom(xs, i, best) ==
    IF i > Len(xs) THEN best
    ELSE PyMaxFrom(xs, i + 1, IF FloatLess(best, xs[i]) THEN xs[i] ELSE best)

PyMax(xs) == IF xs = <<>> THEN None ELSE PyMaxFrom(xs, 2, xs[1])

IsFloat(v) == v # None

\* one entry of series_out
SeriesOut(col, vals) ==
    [column |-> col,
     spark |-> sparkline(vals),
     start |-> vals[1],
     end |-> vals[Len(vals)],
     min |-> PyMin(SelectSeq(vals, IsFloat)),
     max |-> PyMax(SelectSeq(vals, IsFloat))]

SeriesOfColumn(ticks, col) ==
    The({ SeriesOut(col, vals) :
            vals \in {[i \in 1..Len(ticks) |-> DOfFin(InsToFloat(Cell(ticks[i], col)))]} })

RECURSIVE SeriesFrom(_, _, _)
SeriesFrom(ticks, headers, entries) ==
    IF entries = <<>> THEN <<>>
    ELSE The({ IF col \in {NoneCell, <<>>} THEN <<>>
               ELSE << <<entries[1][1], SeriesOfColumn(ticks, col)>> >> :
                 col \in {ChooseColumn(headers, entries[1][2])} })
         \o SeriesFrom(ticks, headers, Tail(entries))

\* _to_float meets a None cell in a column of a series
SeriesRaises(ticks, headers) ==
    \E j \in 1..Len(SeriesCandidates) :
        \A col \in {ChooseColumn(headers, SeriesCandidates[j][2])} :
            /\ col \notin {NoneCell, <<>>}
            /\ \E i \in 1..Len(ticks) : Cell(ticks[i], col) = NoneCell

TickSummaryRequired(ticks) ==
    [NoTickSummary EXCEPT !.k = IF ticks.k = "None" THEN "raise" ELSE "empty"]

\* tick_summary, or the exception raised while it is built
TickSummary(ticks) ==
    IF ticks.k = "None" \/ ticks.rows = <<>> THEN [NoTickSummary EXCEPT !.k = "empty"]
    ELSE IF SeriesRaises(ticks.rows, Keys(ticks.rows[1]))
    THEN [NoTickSummary EXCEPT !.k = "raise"]
    ELSE [k |-> "ticks",
          rows |-> Len(ticks.rows),
          day_col |-> ChooseColumn(Keys(ticks.rows[1]),
                                   <<<<"d","a","y">>, <<"t","i","c","k">>, <<"t">>>>),
          series |-> SeriesFrom(ticks.rows, Keys(ticks.rows[1]), SeriesCandidates)]

Payload(summary_file, ticks_file, pack, w, h, metric_values, moran_value, tick_summary, k,
        coords) ==
    [k |-> "written",
     inputs |-> [summary_json |-> summary_file.k # "missing",
                 ticks_csv |-> ticks_file.k # "missing"],
     grid |-> [width |-> w, height |-> h, tiles |-> Len(pack.rows)],
     metrics |-> StatsJson(pack.metric_map, metric_values),
     hotspots |-> Hotspots(coords, metric_values, k),
     spatial |-> moran_value,
     correlations |-> Correlations(pack.metric_map, metric_values),
     ticks |-> tick_summary,
     summary |-> load_summary_json(summary_file)]

MainOfTicks(summary_file, ticks_file, pack, w, h, metric_values, moran_value, tick_summary,
            k, coords, grid) ==
    IF tick_summary.k = "raise" THEN Traceback("AttributeError")
    ELSE [Outcome(0, "", Payload(summary_file, ticks_file, pack, w, h, metric_values,
                                 moran_value, tick_summary, k, coords))
            EXCEPT !.grid = grid.cells]

MainOfGrid(summary_file, ticks_file, pack, w, h, metric_values, grid, k, coords) ==
    IF grid.k = "raise" THEN Traceback("IndexError")
    ELSE The({ MainOfTicks(summary_file, ticks_file, pack, w, h, metric_values,
                           moran_value, tick_summary, k, coords, grid) :
                 moran_value \in {IF HasMetric(pack.metric_map, "land_value")
                                  THEN morans_i_grid(grid.cells, w, h) ELSE None},
                 tick_summary \in {TickSummary(load_ticks_csv(ticks_file))} })

MainOfValues(summary_file, ticks_file, pack, w, h, metric_values, k, coords) ==
    The({ MainOfGrid(summary_file, ticks_file, pack, w, h, metric_values, grid, k, coords) :
            grid \in {IF HasMetric(pack.metric_map, "land_value")
                      THEN LandValueGrid(coords, ValuesOf(metric_values, "land_value"), w, h)
                      ELSE [k |-> "grid", cells |-> <<>>]} })

MainOfBounds(summary_file, ticks_file, pack, usable, k) ==
    IF \E i \in 1..Len(pack.rows), j \in 1..Len(pack.metric_map) :
          Cell(pack.rows[i], pack.metric_map[j][2]) = NoneCell
    THEN Traceback("AttributeError")
    ELSE The({ MainOfValues(summary_file, ticks_file, pack, w, h, metric_values, k, coords) :
                 w \in {MaxOf({InsToInt(Cell(pack.rows[i], pack.x_col)).v : i \in usable}) + 1},
                 h \in {MaxOf({InsToInt(Cell(pack.rows[i], pack.y_col)).v : i \in usable}) + 1},
                 metric_values \in {MetricValues(pack.rows, pack.metric_map)},
                 coords \in {Coords(pack.rows, pack.x_col, pack.y_col)} })

MainOfPack(summary_file, ticks_file, pack, k) ==
    IF pack.k = "None" THEN SystemExit(CouldNotRead)
    ELSE IF \E i \in 1..Len(pack.rows) :
               \/ Cell(pack.rows[i], pack.x_col) = NoneCell
               \/ Cell(pack.rows[i], pack.y_col) = NoneCell
    THEN Traceback("AttributeError")
    ELSE The({ IF usable = {} THEN SystemExit(NoUsableCoordinates)
               ELSE MainOfBounds(summary_file, ticks_file, pack, usable, k) :
                 usable \in {ParseableRows(pack.rows, pack.x_col, pack.y_col)} })

insights_main(summary_file, ticks_file, tiles_file, k) ==
    The({ MainOfPack(summary_file, ticks_file, pack, k) :
            pack \in {load_tile_metrics_csv(tiles_file)} })

(***************************************************************************)
(* The cells the parsing helpers are applied to.                           *)
(***************************************************************************)
CellPool ==
    { <<>>, <<" ">>, <<" ", " ">>,
      <<"0">>, <<"1">>, <<"2">>, <<" ", "2", " ">>, <<"1", "2">>,
      <<"2", ".", "7">>, <<"-", "1", ".", "5">>, <<"-", "2">>,
      <<"-", "0", ".", "5">>, <<"+", "3", ".", "5">>, <<".", "5">>,
      <<"4", ".">>, <<"1", "e", "1">>, <<"2", "5", "e", "-", "1">>,
      <<"1", "e", "9", "9", "9">>, <<"-", "1", "e", "9", "9", "9">>,
      <<"n", "a", "n">>, <<"N", "a", "N">>, <<"-", "n", "a", "n">>,
      <<"n", "u", "l", "l">>, <<"N", "o", "n", "e">>,
      <<"i", "n", "f">>, <<"-", "i", "n", "f">>, <<"I", "N", "F">>,
      <<"I", "n", "f", "i", "n", "i", "t", "y">>, <<"+", "i", "n", "f">>,
      <<"a", "b", "c">>, <<"1", "x">>, <<".">>, <<"-">>, <<"1", "e">>,
      <<"1", " ", "2">>,
      NoneCell }

ParsedInit == [cf |-> Unset, ci |-> Unset, nf |-> Unset, ni |-> Unset]

(***************************************************************************)
(* Parsing specification: each helper of each tool applied to one cell.    *)
(***************************************************************************)
IdleDiscover ==
    /\ column = <<>>
    /\ min_valid_frac = 0
    /\ numeric = <<>>

IdleTicks ==
    /\ rows_ticks_a = <<>>
    /\ rows_ticks_b = <<>>
    /\ ticks_cmp = TicksOutEmpty(<<>>, <<>>)

IdleTiles ==
    /\ header_tiles_a = <<>>
    /\ rows_tiles_a = <<>>
    /\ header_tiles_b = <<>>
    /\ rows_tiles_b = <<>>
    /\ arg_focus_metrics = <<>>
    /\ arg_top_tiles = 0
    /\ tiles_cmp = TilesOutOf(<<>>, <<>>, <<>>, <<>>, NoNote)

IdleMain ==
    /\ file_ticks_a = MissingFile
    /\ file_ticks_b = MissingFile
    /\ file_tiles_a = MissingFile
    /\ file_tiles_b = MissingFile
    /\ args_top = 20
    /\ args_metric = <<>>
    /\ out_obj = NoOutput
    /\ exit_code = -1

IdleStats ==
    /\ stat_tool = "compare"
    /\ stat_values = <<>>
    /\ stat_stats = Unset
    /\ stat_gini = Unset

IdleMoran ==
    /\ grid_values = <<>>
    /\ grid_w = 0
    /\ grid_h = 0
    /\ moran = Unset

IdleCorr ==
    /\ corr_a = <<>>
    /\ corr_b = <<>>
    /\ corr_ab = Unset
    /\ corr_ba = Unset

IdleAnalysis == IdleStats /\ IdleMoran /\ IdleCorr

IdleSummary ==
    /\ file_summary_a = JsonMissing
    /\ file_summary_b = JsonMissing
    /\ sum_a = Unset
    /\ sum_b = Unset
    /\ summary_cmp = Unset

IdleInsights ==
    /\ summary_path = JsonMissing
    /\ ticks_path = MissingFile
    /\ tiles_path = MissingFile
    /\ args_topk = 20
    /\ payload = NoReport
    /\ exit_status = -1
    /\ exit_message = ""
    /\ land_grid = <<>>

IdlePatcher ==
    /\ repo = <<>>
    /\ dry_run = FALSE
    /\ changed_by = <<>>
    /\ written = {}
    /\ repo_before = <<>>
    /\ wrote_before = FALSE
    /\ runs = 0
    /\ patcher_status = -1

IdleTools == IdleSummary /\ IdleInsights /\ IdlePatcher

IdleEngine ==
    /\ IdleTicks
    /\ IdleTiles
    /\ IdleMain
    /\ IdleAnalysis
    /\ IdleTools

InitParse ==
    /\ cell \in CellPool
    /\ parsed = ParsedInit
    /\ pc = "parse"
    /\ IdleDiscover
    /\ IdleEngine

CompareToFloat ==
    /\ parsed.cf = Unset
    /\ parsed' = [parsed EXCEPT !.cf = CmpToFloat(cell)]
    /\ UNCHANGED <<toolVars, cell, discoverVars, engineVars, analysisVars, pc>>

CompareToInt ==
    /\ parsed.ci = Unset
    /\ parsed' = [parsed EXCEPT !.ci = CmpToInt(cell)]
    /\ UNCHANGED <<toolVars, cell, discoverVars, engineVars, analysisVars, pc>>

InsightsToFloat ==
    /\ parsed.nf = Unset
    /\ parsed' = [parsed EXCEPT !.nf = InsToFloat(cell)]
    /\ UNCHANGED <<toolVars, cell, discoverVars, engineVars, analysisVars, pc>>

InsightsToInt ==
    /\ parsed.ni = Unset
    /\ parsed' = [parsed EXCEPT !.ni = InsToInt(cell)]
    /\ UNCHANGED <<toolVars, cell, discoverVars, engineVars, analysisVars, pc>>

NextParse ==
    \/ CompareToFloat
    \/ CompareToInt
    \/ InsightsToFloat
    \/ InsightsToInt

SpecParse == InitParse /\ [][NextParse]_vars

(***************************************************************************)
(* Column classification specification: discover_numeric_columns applied   *)
(* to a one-column table of at most MaxColumnRows rows.                    *)
(***************************************************************************)
kM == <<"m">>

ColumnCells ==
    { <<>>, <<" ">>, <<"5">>, <<" ", "2", ".", "5">>, <<"x">>,
      <<"n", "a", "n">>, <<"N", "U", "L", "L">>, <<"n", "o", "n", "e">>,
      <<"i", "n", "f">> }

RECURSIVE SeqsUpTo(_, _)
\* the lists of at most n entries of S
SeqsUpTo(S, n) ==
    IF n = 0 THEN {<<>>}
    ELSE SeqsUpTo(S, n - 1) \cup
         {Append(s, x) : s \in {t \in SeqsUpTo(S, n - 1) : Len(t) = n - 1}, x \in S}

IdleParse ==
    /\ cell = <<>>
    /\ parsed = ParsedInit

InitDiscover ==
    /\ column \in SeqsUpTo({<< <<kM, c>> >> : c \in ColumnCells}, MaxColumnRows)
    /\ min_valid_frac \in {MinValidFracTicks, MinValidFracTiles}
    /\ numeric = <<>>
    /\ pc = "discover"
    /\ IdleParse
    /\ IdleEngine

Discover ==
    /\ pc = "discover"
    /\ numeric' = DiscoverNumericColumns(column, min_valid_frac)
    /\ pc' = "done"
    /\ UNCHANGED <<toolVars, parseVars, column, min_valid_frac, engineVars, analysisVars>>

NextDiscover == Discover

SpecDiscover == InitDiscover /\ [][NextDiscover]_vars

(***************************************************************************)
(* Comparison specification: compare_ticks applied to two tick tables of   *)
(* at most MaxTickRows rows each, or compare_tile_metrics applied to two   *)
(* tile tables of at most MaxTileRows rows each with a list of focus       *)
(* metrics and a tile count.                                               *)
(***************************************************************************)
kCapDay == <<"D","a","y">>
kPop == <<"p","o","p">>

\* rows of a table with the columns day and pop
TickLines ==
    { << <<"1">>, <<"5">> >>,
      << <<"2">>, <<"5">> >>,
      << <<"x">>, <<"5">> >>,
      << <<"1">>, <<"x">> >>,
      << <<"2">>, <<"x">> >> }

TickRowsDayPop == { << <<kDay, l[1]>>, <<kPop, l[2]>> >> : l \in TickLines }
TickRowsCapDayPop == { << <<kCapDay, d>>, <<kPop, <<"5">> >> >> : d \in { <<"1">>, <<"2">> } }
TickRowsDay == { << <<kDay, d>> >> : d \in { <<"1">>, <<"2">> } }

TickTables ==
    SeqsUpTo(TickRowsDayPop, MaxTickRows)
        \cup SeqsUpTo(TickRowsCapDayPop, MaxTickRows)
        \cup SeqsUpTo(TickRowsDay, MaxTickRows)

InitTicks ==
    /\ rows_ticks_a \in TickTables
    /\ rows_ticks_b \in TickTables
    /\ ticks_cmp = TicksOutEmpty(<<>>, <<>>)
    /\ pc = "compare_ticks"
    /\ IdleParse
    /\ IdleDiscover
    /\ IdleAnalysis
    /\ IdleTools
    /\ IdleTiles
    /\ IdleMain

kMoney == <<"m","o","n","e","y">>

TickTable(lines) ==
    [i \in 1..Len(lines) |->
        << <<kDay, lines[i][1]>>, <<kPop, lines[i][2]>>, <<kMoney, lines[i][3]>> >>]

\* tables with the two metrics money and pop: days out of order, a day in
\* one table only, an empty cell, equal values, deltas of equal size, and
\* days 2 and 2.7, which are the same integer day
WideTickTables ==
    { TickTable(<< << <<"1">>, <<"5">>, <<"1">> >>,
                   << <<"2">>, <<"7">>, <<"3">> >>,
                   << <<"3">>, <<"9">>, <<"9">> >> >>),
      TickTable(<< << <<"1">>, <<"6">>, <<"1">> >>,
                   << <<"2">>, <<"4">>, <<>> >> >>),
      TickTable(<< << <<"2">>, <<"7">>, <<"2">> >>,
                   << <<"1">>, <<>>, <<"4">> >> >>),
      TickTable(<< << <<"1">>, <<"5">>, <<"1">> >>,
                   << <<"2">>, <<"5">>, <<"1">> >> >>),
      TickTable(<< << <<"1">>, <<"7">>, <<"1">> >>,
                   << <<"2">>, <<"3">>, <<"1">> >> >>),
      TickTable(<< << <<"1">>, <<"6">>, <<"1">> >>,
                   << <<"2">>, <<"5">>, <<>> >> >>),
      TickTable(<< << <<"1">>, <<>>, <<"1">> >>,
                   << <<"4">>, <<"5">>, <<"1">> >> >>),
      TickTable(<< << <<"2">>, <<"5">>, <<"1">> >>,
                   << <<"2", ".", "7">>, <<"9">>, <<"3">> >> >>),
      TickTable(<< << <<"2", ".", "7">>, <<"4">>, <<"2">> >>,
                   << <<"1">>, <<"6">>, <<"1">> >>,
                   << <<"2">>, <<"8">>, <<"5">> >> >>) }

InitTicksWide ==
    /\ rows_ticks_a \in WideTickTables
    /\ rows_ticks_b \in WideTickTables
    /\ ticks_cmp = TicksOutEmpty(<<>>, <<>>)
    /\ pc = "compare_ticks"
    /\ IdleParse
    /\ IdleDiscover
    /\ IdleAnalysis
    /\ IdleTools
    /\ IdleTiles
    /\ IdleMain

CompareTicks ==
    /\ pc = "compare_ticks"
    /\ ticks_cmp' = CompareTicksOf(rows_ticks_a, rows_ticks_b)
    /\ pc' = "ticks_done"
    /\ UNCHANGED <<toolVars, parseVars, discoverVars, rows_ticks_a, rows_ticks_b, tilesVars,
                   mainVars, analysisVars>>

kLandValue == <<"l","a","n","d","_","v","a","l","u","e">>
kZz == <<"z","z">>
kCapX == <<"X">>
kCapY == <<"Y">>
kA == <<"a">>
kB == <<"b">>

\* a tile table: its header and its rows
TileRow(header, cells) == [i \in 1..Len(header) |-> <<header[i], cells[i]>>]

TileTable(header, lines) ==
    [header |-> header,
     rows |-> [i \in 1..Len(lines) |-> TileRow(header, lines[i])]]

\* rows of a table keyed x, y with the one metric land_value
TileLines ==
    { << <<"0">>, <<"0">>, <<"1">> >>,
      << <<"0">>, <<"0">>, <<"3">> >>,
      << <<"1">>, <<"0">>, <<"1">> >> }

\* the headers of one-row tables keyed otherwise, and one with no key columns
KeyHeaders ==
    { <<kIx, kIy, kLandValue>>, <<kCapX, kCapY, kLandValue>>,
      <<kCol, kRow, kLandValue>>, <<kTx, kTy, kLandValue>>,
      <<kA, kB, kLandValue>>, <<kLandValue>> }

TileTables ==
    { TileTable(<<kX, kY, kLandValue>>, lines) :
        lines \in SeqsUpTo(TileLines, MaxTileRows) }
      \cup { TileTable(h, << [i \in 1..Len(h) |->
                               IF i = Len(h) THEN <<"1">> ELSE <<"0">>] >>) :
               h \in KeyHeaders }
      \cup { TileTable(<<kX, kY, kLandValue>>, << << <<"0">>, <<"0">>, <<"x">> >> >>),
              TileTable(<<kX, kY, kLandValue>>, << << <<"0">>, <<"0">>, <<"1">> >>,
                                                   << <<"1">>, <<"0">>, <<>> >> >>) }

TopCounts == -1..2

FocusLists ==
    { <<>>, <<kLandValue>>, <<kZz, kLandValue>>, <<kLandValue, kZz>>, << <<>> >> }

\* focus_metrics and top_tiles: every list with one tile asked, and every
\* count with land_value asked
TileArgs ==
    { [focus_metrics |-> f, top_tiles |-> 1] : f \in FocusLists }
      \cup { [focus_metrics |-> <<kLandValue>>, top_tiles |-> n] : n \in TopCounts }

InitTiles ==
    /\ \E ta \in TileTables, tb \in TileTables :
          /\ header_tiles_a = ta.header
          /\ rows_tiles_a = ta.rows
          /\ header_tiles_b = tb.header
          /\ rows_tiles_b = tb.rows
    /\ \E a \in TileArgs :
          /\ arg_focus_metrics = a.focus_metrics
          /\ arg_top_tiles = a.top_tiles
    /\ tiles_cmp = TilesOutOf(<<>>, <<>>, <<>>, <<>>, NoNote)
    /\ pc = "compare_tiles"
    /\ IdleParse
    /\ IdleDiscover
    /\ IdleAnalysis
    /\ IdleTools
    /\ IdleTicks
    /\ IdleMain

kTraffic == <<"t","r","a","f","f","i","c">>

\* tables with a categorical column and two metrics, one keyed tile_x,
\* tile_y with the categorical columns district and variation, and two with
\* x = 2 and x = 2.7, which are the same integer coordinate
WideHeader == <<kX, kY, kLevel, kLandValue, kTraffic>>

WideTileTables ==
    { TileTable(WideHeader,
                << << <<"0">>, <<"0">>, <<"1">>, <<"1","0">>, <<"1">> >>,
                   << <<"1">>, <<"0">>, <<"1">>, <<"2","0">>, <<"1">> >> >>),
      TileTable(WideHeader,
                << << <<"0">>, <<"0">>, <<"2">>, <<"1","2">>, <<"5">> >>,
                   << <<"5">>, <<"5">>, <<"2">>, <<"2","0">>, <<"5">> >> >>),
      TileTable(WideHeader,
                << << <<"0">>, <<"0">>, <<"2">>, <<"1","2">>, <<"x">> >>,
                   << <<"1">>, <<"0">>, <<"x">>, <<"2","0">>, <<"x">> >> >>),
      TileTable(<<kTileX, kTileY, kDistrict, kVariation, kLandValue>>,
                << << <<"0">>, <<"0">>, <<"3">>, <<"4">>, <<"1","0">> >> >>),
      TileTable(<<kLevel, kLandValue>>, << << <<"1">>, <<"1","0">> >> >>),
      TileTable(WideHeader,
                << << <<"2">>, <<"0">>, <<"1">>, <<"1","0">>, <<"1">> >>,
                   << <<"2", ".", "7">>, <<"0">>, <<"1">>, <<"2","0">>, <<"3">> >> >>),
      TileTable(WideHeader,
                << << <<"2", ".", "7">>, <<"0">>, <<"1">>, <<"1","2">>, <<"5">> >>,
                   << <<"0">>, <<"0">>, <<"1">>, <<"1","0">>, <<"1">> >>,
                   << <<"2">>, <<"0">>, <<"1">>, <<"1","5">>, <<"2">> >> >>) }

InitTilesWide ==
    /\ \E ta \in WideTileTables, tb \in WideTileTables :
          /\ header_tiles_a = ta.header
          /\ rows_tiles_a = ta.rows
          /\ header_tiles_b = tb.header
          /\ rows_tiles_b = tb.rows
    /\ arg_focus_metrics \in { <<>>, <<kLandValue>>, <<kLevel>> }
    /\ arg_top_tiles = 1
    /\ tiles_cmp = TilesOutOf(<<>>, <<>>, <<>>, <<>>, NoNote)
    /\ pc = "compare_tiles"
    /\ IdleParse
    /\ IdleDiscover
    /\ IdleAnalysis
    /\ IdleTools
    /\ IdleTicks
    /\ IdleMain

\* the lists of a set of keys, in every order
RECURSIVE Orders(_)
Orders(S) ==
    IF S = {} THEN { <<>> }
    ELSE UNION { { <<m>> \o rest : rest \in Orders(S \ {m}) } : m \in S }

\* the (x, y) keys of a table under its inferred key columns
TileKeySet(header, rows) ==
    The({ Range(TileKeys(rows, kc)) \ {None} : kc \in {InferTileKeyCols(header)} })

\* the orders in which the set of common keys may yield its members
TileKeyOrders(header_a, rows_a, header_b, rows_b) ==
    Orders(TileKeySet(header_a, rows_a) \cap TileKeySet(header_b, rows_b))

CompareTiles ==
    /\ pc = "compare_tiles"
    /\ \E order \in TileKeyOrders(header_tiles_a, rows_tiles_a,
                                   header_tiles_b, rows_tiles_b) :
          tiles_cmp' = CompareTileMetricsOf(header_tiles_a, rows_tiles_a,
                                            header_tiles_b, rows_tiles_b,
                                            arg_focus_metrics, arg_top_tiles, order)
    /\ pc' = "tiles_done"
    /\ UNCHANGED <<toolVars, parseVars, discoverVars, ticksVars, header_tiles_a,
                   rows_tiles_a, header_tiles_b, rows_tiles_b, arg_focus_metrics,
                   arg_top_tiles, mainVars, analysisVars>>

InitCompare == InitTicks \/ InitTicksWide \/ InitTiles \/ InitTilesWide

NextCompare == CompareTicks \/ CompareTiles

SpecCompare == InitCompare /\ [][NextCompare]_vars

(***************************************************************************)
(* Run specification: main of the comparison tool on two dossiers, each    *)
(* with a ticks.csv and a tile_metrics.csv, and the options --top and      *)
(* --metric.                                                               *)
(***************************************************************************)
TickFiles ==
    { MissingFile, UnreadableFile,
      CsvFile(<<kDay, kPop>>, << << <<"1">>, <<"5">> >> >>),
      CsvFile(<<kDay, kPop>>, << << <<"1">>, <<"5">> >>, << <<"2">> >> >>) }

TileFiles ==
    { MissingFile, UnreadableFile,
      CsvFile(<<kX, kY, kLandValue>>, <<>>),
      CsvFile(<<kX, kY, kLandValue>>, << << <<"0">>, <<"0">>, <<"1">> >> >>),
      CsvFile(<<kX, kY, kLandValue>>, << << <<"0">>, <<"0">>, <<"1">> >>,
                                         << <<"1">>, <<"0">>, <<"1">> >> >>),
      CsvFile(<<kX, kY, kLandValue>>, << << <<"0">>, <<"0">>, <<"3">> >>,
                                         << <<"1">>, <<"0">>, <<"1">> >> >>),
      CsvFile(<<kX, kY, kLandValue>>, << << <<"0">>, <<"0">>, <<"1">> >>,
                                         << <<"1">>, <<"0">> >> >>),
      CsvFile(<<kIx, kIy, kLandValue>>, << << <<"0">>, <<"0">>, <<"1">> >> >>) }

TopArgs == -1..2

InitMain ==
    /\ file_ticks_a \in TickFiles
    /\ file_ticks_b \in TickFiles
    /\ file_tiles_a \in TileFiles
    /\ file_tiles_b \in TileFiles
    /\ args_top \in TopArgs
    /\ args_metric \in FocusLists
    /\ out_obj = NoOutput
    /\ exit_code = -1
    /\ pc = "main"
    /\ IdleParse
    /\ IdleDiscover
    /\ IdleAnalysis
    /\ IdleTools
    /\ IdleTicks
    /\ IdleTiles

Main ==
    /\ pc = "main"
    /\ \E ticks \in {LoadPair(file_ticks_a, file_ticks_b)},
          tiles \in {LoadPair(file_tiles_a, file_tiles_b)} :
          /\ rows_ticks_a' = ticks.a.rows
          /\ rows_ticks_b' = ticks.b.rows
          /\ header_tiles_a' = tiles.a.header
          /\ rows_tiles_a' = tiles.a.rows
          /\ header_tiles_b' = tiles.b.header
          /\ rows_tiles_b' = tiles.b.rows
    /\ arg_focus_metrics' = args_metric
    /\ arg_top_tiles' = Max(1, args_top)
    /\ ticks_cmp' = CompareTicksOf(rows_ticks_a', rows_ticks_b')
    /\ \E order \in TileKeyOrders(header_tiles_a', rows_tiles_a',
                                   header_tiles_b', rows_tiles_b') :
          tiles_cmp' = CompareTileMetricsOf(header_tiles_a', rows_tiles_a',
                                            header_tiles_b', rows_tiles_b',
                                            arg_focus_metrics', arg_top_tiles',
                                            order)
    /\ out_obj' = OutObj(ticks_cmp', tiles_cmp')
    /\ exit_code' = 0
    /\ pc' = "exited"
    /\ UNCHANGED <<toolVars, parseVars, discoverVars, file_ticks_a, file_ticks_b,
                   file_tiles_a, file_tiles_b, args_top, args_metric,
                   analysisVars>>

NextMain == Main

SpecMain == InitMain /\ [][NextMain]_vars

(***************************************************************************)
(* Statistics specification: compute_stats and then gini of one tool, on   *)
(* one series of at most MaxSeriesLen values, in the order in which        *)
(* compare_tile_metrics and the insights main call them on a column.       *)
(***************************************************************************)
MaxSeriesLen == 3

\* None, inf, 0.0, 0.1, -0.1
StatValues == {None, Inf(1), DZero, DOfDecimal(1, 10), DNeg(DOfDecimal(1, 10))}

\* [0, 0, 0, 1]
OneOfFour == <<DZero, DZero, DZero, DOfInt(1)>>

StatSeries == SeqsUpTo(StatValues, MaxSeriesLen) \cup {OneOfFour}

InitStats ==
    /\ stat_tool \in {"compare", "insights"}
    /\ stat_values \in StatSeries
    /\ stat_stats = Unset
    /\ stat_gini = Unset
    /\ pc = "compute_stats"
    /\ IdleParse
    /\ IdleDiscover
    /\ IdleTicks
    /\ IdleTiles
    /\ IdleMain
    /\ IdleMoran
    /\ IdleCorr
    /\ IdleTools

ComputeStatsOfSeries ==
    /\ pc = "compute_stats"
    /\ stat_stats' = compute_stats(stat_values)
    /\ pc' = "gini"
    /\ UNCHANGED <<toolVars, parseVars, discoverVars, engineVars, moranVars, corrVars, stat_tool,
                   stat_values, stat_gini>>

CompareGini ==
    /\ pc = "gini"
    /\ stat_tool = "compare"
    /\ stat_gini' = gini(stat_values)
    /\ pc' = "stats_done"
    /\ UNCHANGED <<toolVars, parseVars, discoverVars, engineVars, moranVars, corrVars, stat_tool,
                   stat_values, stat_stats>>

InsightsGini ==
    /\ pc = "gini"
    /\ stat_tool = "insights"
    /\ stat_gini' = insights_gini(stat_values)
    /\ pc' = "stats_done"
    /\ UNCHANGED <<toolVars, parseVars, discoverVars, engineVars, moranVars, corrVars, stat_tool,
                   stat_values, stat_stats>>

NextStats == ComputeStatsOfSeries \/ CompareGini \/ InsightsGini

SpecStats == InitStats /\ [][NextStats]_vars

(***************************************************************************)
(* Spatial specification: morans_i_grid applied to a grid of at most       *)
(* MaxGridCells cells, or to a checkerboard, built as the insights main    *)
(* builds it: w * h cells, None where no tile gave a finite value.         *)
(***************************************************************************)
MaxGridCells == 5

\* None, 0.1, 1.0
GridCells == {None, DOfDecimal(1, 10), DOfInt(1)}

Grid(values, w, h) == [values |-> values, w |-> w, h |-> h]

\* the grid of w columns and h rows that alternates +1.0 and -1.0
Checkerboard(w, h) ==
    Grid([c \in 1..(w * h) |->
            IF (((c - 1) % w) + ((c - 1) \div w)) % 2 = 0 THEN DOfInt(1) ELSE DOfInt(-1)],
         w, h)

GridsOfShape(w, h) == { Grid(values, w, h) : values \in [1..(w * h) -> GridCells] }

SmallGrids ==
    UNION { GridsOfShape(s[1], s[2]) :
            s \in { t \in (1..MaxGridCells) \X (1..MaxGridCells) :
                     t[1] * t[2] <= MaxGridCells } }

\* max(xs) + 1 or max(ys) + 1 is not positive when every tile coordinate on
\* that axis is negative; no tile is then put on the grid
EmptyGrids ==
    { Grid([c \in 1..(IF w * h > 0 THEN w * h ELSE 0) |-> None], w, h) :
      w \in {-1, 0, 1}, h \in {-1, 0, 1} } \ { Grid(<<None>>, 1, 1) }

Checkerboards == { Checkerboard(w, h) : w \in {2, 3}, h \in {2, 3} }

\* grids with cells that are floats but not finite
NonFiniteGrids ==
    { Grid(<<DOfInt(1), Inf(1), DOfDecimal(1, 10), NaN>>, 2, 2),
      Grid(<<DOfInt(1), DOfDecimal(1, 10), Inf(-1), DOfInt(1), NaN, DOfInt(-1)>>, 3, 2) }

InitMoran ==
    /\ \E g \in SmallGrids \cup EmptyGrids \cup Checkerboards \cup NonFiniteGrids :
          /\ grid_values = g.values
          /\ grid_w = g.w
          /\ grid_h = g.h
    /\ moran = Unset
    /\ pc = "morans_i_grid"
    /\ IdleParse
    /\ IdleDiscover
    /\ IdleTicks
    /\ IdleTiles
    /\ IdleMain
    /\ IdleStats
    /\ IdleCorr
    /\ IdleTools

MoransIGrid ==
    /\ pc = "morans_i_grid"
    /\ moran' = morans_i_grid(grid_values, grid_w, grid_h)
    /\ pc' = "moran_done"
    /\ UNCHANGED <<toolVars, parseVars, discoverVars, engineVars, statVars, corrVars,
                   grid_values, grid_w, grid_h>>

NextMoran == MoransIGrid

SpecMoran == InitMoran /\ [][NextMoran]_vars

(***************************************************************************)
(* Correlation specification: pearson_corr applied to two series of at     *)
(* most MaxCorrLen values each, in both orders of the arguments.           *)
(***************************************************************************)
MaxCorrLen == 3

\* None, 0.1, 1.0
CorrValues == {None, DOfDecimal(1, 10), DOfInt(1)}

\* [2 * x + 3 for x in a]
TwicePlusThree(a) == [i \in 1..Len(a) |-> DAdd(DMul(DOfInt(2), a[i]), DOfInt(3))]

\* two series of the same length
AlignedPairs ==
    UNION { [1..n -> CorrValues] \X [1..n -> CorrValues] : n \in 0..MaxCorrLen }

\* a series without None and 2a + 3
LinearPairs ==
    { <<a, TwicePlusThree(a)>> : a \in [1..3 -> CorrValues \ {None}] }

\* series of different lengths, and series with floats that are not finite
OtherPairs ==
    { <<a, b>> : a \in [1..4 -> {DOfDecimal(1, 10), DOfInt(1)}],
                 b \in { <<DOfInt(1), DOfDecimal(1, 10), DOfInt(1)>>,
                         <<DOfInt(1), DOfDecimal(1, 10), Inf(1), DOfDecimal(1, 10), NaN, DZero>> } }

InitCorr ==
    /\ \E p \in AlignedPairs \cup LinearPairs \cup OtherPairs :
          /\ corr_a = p[1]
          /\ corr_b = p[2]
    /\ corr_ab = Unset
    /\ corr_ba = Unset
    /\ pc = "pearson_corr"
    /\ IdleParse
    /\ IdleDiscover
    /\ IdleTicks
    /\ IdleTiles
    /\ IdleMain
    /\ IdleStats
    /\ IdleMoran
    /\ IdleTools

PearsonCorr ==
    /\ pc = "pearson_corr"
    /\ corr_ab' = pearson_corr(corr_a, corr_b)
    /\ pc' = "pearson_corr_swapped"
    /\ UNCHANGED <<toolVars, parseVars, discoverVars, engineVars, statVars, moranVars,
                   corr_a, corr_b, corr_ba>>

PearsonCorrSwapped ==
    /\ pc = "pearson_corr_swapped"
    /\ corr_ba' = pearson_corr(corr_b, corr_a)
    /\ pc' = "corr_done"
    /\ UNCHANGED <<toolVars, parseVars, discoverVars, engineVars, statVars, moranVars,
                   corr_a, corr_b, corr_ab>>

NextCorr == PearsonCorr \/ PearsonCorrSwapped

SpecCorr == InitCorr /\ [][NextCorr]_vars

(***************************************************************************)
(* Summary specification: main of the comparison tool loads summary.json   *)
(* of both dossiers and compares them.                                     *)
(***************************************************************************)
Absent == [k |-> "absent", v |-> 0, e |-> ""]

\* the object with the keys that are given, in the order seed, width, height
SummaryObject(seed, width, height) ==
    JsonObject((IF seed = Absent THEN <<>> ELSE << <<"seed", seed>> >>)
               \o (IF width = Absent THEN <<>> ELSE << <<"width", width>> >>)
               \o (IF height = Absent THEN <<>> ELSE << <<"height", height>> >>))

SummaryFiles ==
    {JsonMissing, JsonInvalid, JsonArray}
    \cup { SummaryObject(seed, width, height) :
               seed \in {Absent, None, Integer(7), Fin(70), Integer(8)},
               width \in {Absent, None, Integer(10), Integer(12)},
               height \in {Absent, Integer(10), Integer(12)} }

InitSummary ==
    /\ file_summary_a \in SummaryFiles
    /\ file_summary_b \in SummaryFiles
    /\ sum_a = Unset
    /\ sum_b = Unset
    /\ summary_cmp = Unset
    /\ pc = "load_json"
    /\ IdleParse
    /\ IdleDiscover
    /\ IdleTicks
    /\ IdleTiles
    /\ IdleMain
    /\ IdleAnalysis
    /\ IdleInsights
    /\ IdlePatcher

LoadSummaries ==
    /\ pc = "load_json"
    /\ sum_a' = load_json(file_summary_a)
    /\ sum_b' = load_json(file_summary_b)
    /\ pc' = "compare_summary"
    /\ UNCHANGED <<parseVars, discoverVars, engineVars, analysisVars, insightsVars, patcherVars,
                   file_summary_a, file_summary_b, summary_cmp>>

CompareSummary ==
    /\ pc = "compare_summary"
    /\ summary_cmp' = compare_summary(sum_a, sum_b)
    /\ pc' = "summary_done"
    /\ UNCHANGED <<parseVars, discoverVars, engineVars, analysisVars, insightsVars, patcherVars,
                   file_summary_a, file_summary_b, sum_a, sum_b>>

NextSummary == LoadSummaries \/ CompareSummary

SpecSummary == InitSummary /\ [][NextSummary]_vars

(***************************************************************************)
(* Insights specification: main of the analysis tool on one dossier with   *)
(* its summary.json, ticks.csv and tile_metrics.csv, and the option        *)
(* --topk.                                                                 *)
(***************************************************************************)
MaxInsightRows == 2

c01 == <<"0", ".", "1">>
c05 == <<"0", ".", "5">>
c07 == <<"0", ".", "7">>

\* lines of a table x, y, land_value: a coordinate twice, a negative and an
\* empty coordinate, a value that is no number, a line with its x only
InsightLines ==
    { << <<"0">>, <<"0">>, c01 >>,
      << <<"1">>, <<"0">>, <<"1">> >>,
      << <<"0">>, <<"0">>, <<"2">> >>,
      << <<"-", "1">>, <<"1">>, c05 >>,
      << <<>>, <<"0">>, <<"1">> >>,
      << <<"0">>, <<"1">>, <<"x">> >>,
      << <<"1">> >> }

InsightTileFiles ==
    { CsvFile(<<kX, kY, kLandValue>>, lines) :
        lines \in SeqsUpTo(InsightLines, MaxInsightRows) }

kCapTileX == <<"T","i","l","e","_","X">>
kCapTileY == <<"T","i","l","e","_","Y">>
kCapLandValue == <<"L","a","n","d","V","a","l","u","e">>

\* a 2 x 2 grid with two metrics; a table keyed by its first two integer
\* columns; one with a single column; a header alone; an empty file; a
\* negative coordinate among three rows; names found after normalisation,
\* with x = 2 and x = 2.7; a uniform column; a missing and an unreadable file
WideTileFiles ==
    { CsvFile(<<kX, kY, kLandValue, kTraffic>>,
              << << <<"0">>, <<"0">>, c01, <<"1">> >>,
                 << <<"1">>, <<"0">>, <<"1">>, <<"2">> >>,
                 << <<"0">>, <<"1">>, c05, <<"3">> >>,
                 << <<"1">>, <<"1">>, c01, <<"1">> >> >>),
      CsvFile(<<kA, kB, kLandValue>>,
              << << <<"0">>, <<"1">>, c05 >>,
                 << <<"1">>, <<"1">>, c07 >> >>),
      CsvFile(<<kLandValue>>, << << <<"1">> >> >>),
      CsvFile(<<kX, kY, kLandValue>>, <<>>),
      CsvFile(<<>>, <<>>),
      CsvFile(<<kX, kY, kLandValue>>,
              << << <<"-", "1">>, <<"1">>, c05 >>,
                 << <<"1">>, <<"0">>, c01 >>,
                 << <<"0">>, <<"1">>, c07 >> >>),
      CsvFile(<<kCapTileX, kCapTileY, kCapLandValue>>,
              << << <<"2">>, <<"0">>, <<"1">> >>,
                 << <<"2", ".", "7">>, <<"0">>, <<"3">> >> >>),
      CsvFile(<<kX, kY, kLandValue>>,
              << << <<"0">>, <<"0">>, c01 >>,
                 << <<"0">>, <<"1">>, c01 >>,
                 << <<"0">>, <<"2">>, c01 >> >>),
      MissingFile,
      UnreadableFile }

InsightSummaryFiles ==
    { JsonMissing, JsonInvalid, JsonArray, JsonObject(<< <<"seed", Integer(7)>> >>) }

\* ticks.csv: missing, unreadable, a header alone, two days, a short line,
\* and an empty cell
InsightTickFiles ==
    { MissingFile,
      UnreadableFile,
      CsvFile(<<kDay, kPop>>, <<>>),
      CsvFile(<<kDay, kPop>>, << << <<"1">>, <<"5">> >>, << <<"2">>, <<"7">> >> >>),
      CsvFile(<<kDay, kPop>>, << << <<"1">>, <<"5">> >>, << <<"2">> >> >>),
      CsvFile(<<kDay, kMoney>>, << << <<"1">>, <<>> >>, << <<"2">>, <<"3">> >> >>) }

TopkArgs == -1..2

InitInsights ==
    /\ \/ /\ tiles_path \in InsightTileFiles
          /\ summary_path = JsonMissing
          /\ ticks_path = MissingFile
          /\ args_topk = 1
       \/ /\ tiles_path \in WideTileFiles
          /\ summary_path = JsonMissing
          /\ ticks_path = MissingFile
          /\ args_topk \in TopkArgs
       \/ /\ tiles_path \in WideTileFiles
          /\ summary_path \in InsightSummaryFiles
          /\ ticks_path \in InsightTickFiles
          /\ args_topk = 2
    /\ payload = NoReport
    /\ exit_status = -1
    /\ exit_message = ""
    /\ land_grid = <<>>
    /\ pc = "insights_main"
    /\ IdleParse
    /\ IdleDiscover
    /\ IdleTicks
    /\ IdleTiles
    /\ IdleMain
    /\ IdleAnalysis
    /\ IdleSummary
    /\ IdlePatcher

InsightsMain ==
    /\ pc = "insights_main"
    /\ \E outcome \in {insights_main(summary_path, ticks_path, tiles_path, args_topk)} :
          /\ payload' = outcome.payload
          /\ exit_status' = outcome.status
          /\ exit_message' = outcome.message
          /\ land_grid' = outcome.grid
    /\ pc' = "insights_exited"
    /\ UNCHANGED <<parseVars, discoverVars, engineVars, analysisVars, summaryVars, patcherVars,
                   summary_path, ticks_path, tiles_path, args_topk>>

NextInsights == InsightsMain

SpecInsights == InitInsights /\ [][NextInsights]_vars

(***************************************************************************)
(* tools/fix_msvc_issues.py.  A text is a sequence of one-character        *)
(* strings; positions are Python's, counted from 0.                        *)
(***************************************************************************)

\* text[i:j] for 0 <= i <= j <= len(text)
Slice(text, i, j) == SubSeq(text, i + 1, j)

StartsWithAt(text, i, sub) ==
    /\ i + Len(sub) <= Len(text)
    /\ SubSeq(text, i + 1, i + Len(sub)) = sub

\* text.find(sub, start)
find(text, sub, start) ==
    LET hits == {i \in start..(Len(text) - Len(sub)) : StartsWithAt(text, i, sub)}
    IN  IF hits = {} THEN -1 ELSE CHOOSE i \in hits : \A j \in hits : i <= j

\* text.rfind(sub, 0, end)
rfind(text, sub, end) ==
    LET hits == {i \in 0..(end - Len(sub)) : StartsWithAt(text, i, sub)}
    IN  IF hits = {} THEN -1 ELSE CHOOSE i \in hits : \A j \in hits : i >= j

\* sub in text
Contains(text, sub) == find(text, sub, 0) >= 0

detect_newline(text) == IF Contains(text, <<"\r", "\n">>) THEN <<"\r", "\n">> ELSE <<"\n">>

\* the length of the longest run of characters of class from position j
RunLength(text, j, class) ==
    CHOOSE n \in 0..(Len(text) - j) :
        /\ \A k \in 1..n : text[j + k] \in class
        /\ (j + n = Len(text) \/ text[j + n + 1] \notin class)

\* [A-Za-z0-9_]
DelimClass ==
    { "A", "B", "C", "D", "E", "F", "G", "H", "I", "J", "K", "L", "M",
      "N", "O", "P", "Q", "R", "S", "T", "U", "V", "W", "X", "Y", "Z",
      "a", "b", "c", "d", "e", "f", "g", "h", "i", "j", "k", "l", "m",
      "n", "o", "p", "q", "r", "s", "t", "u", "v", "w", "x", "y", "z",
      "0", "1", "2", "3", "4", "5", "6", "7", "8", "9", "_" }

MaxDelim == 16

\* (u8|u|U|L)? : the alternatives in the order the regex tries them
RawPrefixes == << <<"u", "8">>, <<"u">>, <<"U">>, <<"L">>, <<>> >>

\* R"delim( matches at position j: the greedy {0,16} run has to end at "("
RawOpenAt(text, j) ==
    /\ StartsWithAt(text, j, <<"R", "\"">>)
    /\ RunLength(text, j + 2, DelimClass) <= MaxDelim
    /\ StartsWithAt(text, j + 2 + RunLength(text, j + 2, DelimClass), <<"(">>)

NoMatch == [start |-> -1, prefix |-> <<>>, delim |-> <<>>, end |-> -1]

MatchOf(text, i, prefix, n) ==
    [start |-> i, prefix |-> prefix,
     delim |-> Slice(text, i + Len(prefix) + 2, i + Len(prefix) + 2 + n),
     end |-> i + Len(prefix) + 2 + n + 1]

\* RAW_STRING_START_RE.match(text, i)
MatchAt(text, i) ==
    LET alts == {a \in 1..Len(RawPrefixes) :
                    /\ StartsWithAt(text, i, RawPrefixes[a])
                    /\ RawOpenAt(text, i + Len(RawPrefixes[a]))}
    IN  IF alts = {} THEN NoMatch
        ELSE The({ MatchOf(text, i, RawPrefixes[a],
                           RunLength(text, i + Len(RawPrefixes[a]) + 2, DelimClass)) :
                   a \in {CHOOSE a \in alts : \A b \in alts : a <= b} })

\* RAW_STRING_START_RE.search(text, pos)
Search(text, pos) ==
    LET hits == {i \in pos..Len(text) : MatchAt(text, i) # NoMatch}
    IN  IF hits = {} THEN NoMatch
        ELSE MatchAt(text, CHOOSE i \in hits : \A j \in hits : i <= j)

CloseSeq(delim) == <<")">> \o delim \o <<"\"">>

\* the leading blanks and tabs of the line on which the literal starts
IndentOf(text, start) ==
    LET nl == rfind(text, <<"\n">>, start)
        line_start == IF nl < 0 THEN 0 ELSE nl + 1
    IN  Slice(text, line_start,
              line_start + RunLength(Slice(text, 0, start), line_start, {" ", "\t"}))

\* [content[j : j + chunk_size] for j in range(0, len(content), chunk_size)]
ChunksWhole(content, chunk_size) == <<content>>

ChunksOf(content, chunk_size) ==
    [c \in 1..((Len(content) + chunk_size - 1) \div chunk_size) |->
        Slice(content, (c - 1) * chunk_size,
              IF c * chunk_size < Len(content) THEN c * chunk_size ELSE Len(content))]

LiteralLine(indent, prefix, delim, chunk) ==
    indent \o prefix \o <<"R", "\"">> \o delim \o <<"(">> \o chunk \o CloseSeq(delim)

RECURSIVE JoinWith(_, _)
JoinWith(sep, lines) ==
    IF lines = <<>> THEN <<>>
    ELSE IF Len(lines) = 1 THEN lines[1]
    ELSE lines[1] \o sep \o JoinWith(sep, Tail(lines))

SplitLines(text, m, content, chunk_size) ==
    [c \in 1..Len(ChunksOf(content, chunk_size)) |->
        LiteralLine(IndentOf(text, m.start), m.prefix, m.delim,
                    ChunksOf(content, chunk_size)[c])]

Transformed(text, changed) == [text |-> text, changed |-> changed]

RECURSIVE SplitLoop(_, _, _, _, _, _)
SplitLiteral(text, i, out, changed, max_literal_content, chunk_size, m, content_end) ==
    IF Len(Slice(text, m.end, content_end)) > max_literal_content
    THEN The({ SplitLoop(text, content_end + Len(CloseSeq(m.delim)), o, TRUE,
                         max_literal_content, chunk_size) :
               o \in {out \o Slice(text, i, m.start)
                          \o JoinWith(detect_newline(text),
                                      SplitLines(text, m, Slice(text, m.end, content_end),
                                                 chunk_size))} })
    ELSE The({ SplitLoop(text, content_end + Len(CloseSeq(m.delim)), o, changed,
                         max_literal_content, chunk_size) :
               o \in {out \o Slice(text, i, content_end + Len(CloseSeq(m.delim)))} })

SplitMatch(text, i, out, changed, max_literal_content, chunk_size, m) ==
    IF m = NoMatch THEN Transformed(out \o Slice(text, i, Len(text)), changed)
    ELSE The({ IF content_end < 0
               THEN Transformed(out \o Slice(text, i, m.start)
                                    \o Slice(text, m.start, Len(text)), changed)
               ELSE SplitLiteral(text, i, out, changed, max_literal_content, chunk_size,
                                 m, content_end) :
               content_end \in {find(text, CloseSeq(m.delim), m.end)} })

SplitLoop(text, i, out, changed, max_literal_content, chunk_size) ==
    The({ SplitMatch(text, i, out, changed, max_literal_content, chunk_size, m) :
          m \in {Search(text, i)} })

split_oversize_raw_string_literals(text, max_literal_content, chunk_size) ==
    SplitLoop(text, 0, <<>>, FALSE, max_literal_content, chunk_size)

IfdefMscVer == <<"#", "i", "f", "d", "e", "f", " ", "_", "M", "S", "C", "_", "V", "E", "R">>
Endif == <<"#", "e", "n", "d", "i", "f">>
CrtMacro == <<"_", "C", "R", "T", "_", "S", "E", "C", "U", "R", "E", "_", "N", "O", "_", "W", "A", "R", "N", "I", "N", "G", "S">>
CrtMarker == <<"P", "R", "O", "C", "I", "S", "O", "C", "I", "T", "Y", "_", "C", "R", "T", "_", "S", "E", "C", "U", "R", "E", "_", "N", "O", "_", "W", "A", "R", "N", "I", "N", "G", "S">>
DefineCrt == <<"#", "d", "e", "f", "i", "n", "e", " ", "_", "C", "R", "T", "_", "S", "E", "C", "U", "R", "E", "_", "N", "O", "_", "W", "A", "R", "N", "I", "N", "G", "S", " ", "/", "/", " ">>

ensure_crt_secure_no_warnings(text) ==
    IF Contains(text, CrtMarker) \/ Contains(text, CrtMacro)
    THEN Transformed(text, FALSE)
    ELSE LET nl == detect_newline(text)
         IN  Transformed(IfdefMscVer \o nl \o DefineCrt \o CrtMarker \o nl
                             \o Endif \o nl \o nl \o text, TRUE)

Marker4456 == <<"P", "R", "O", "C", "I", "S", "O", "C", "I", "T", "Y", "_", "M", "S", "V", "C", "_", "D", "I", "S", "A", "B", "L", "E", "_", "4", "4", "5", "6">>
PragmaPush == <<"#", "p", "r", "a", "g", "m", "a", " ", "w", "a", "r", "n", "i", "n", "g", "(", "p", "u", "s", "h", ")">>
PragmaDisable == <<"#", "p", "r", "a", "g", "m", "a", " ", "w", "a", "r", "n", "i", "n", "g", "(", "d", "i", "s", "a", "b", "l", "e", ":", "4", "4", "5", "6", ")", " ", "/", "/", " ">>
PragmaPop == <<"#", "p", "r", "a", "g", "m", "a", " ", "w", "a", "r", "n", "i", "n", "g", "(", "p", "o", "p", ")">>

ensure_msvc_disable_warning_4456(text) ==
    IF Contains(text, Marker4456) THEN Transformed(text, FALSE)
    ELSE LET nl == detect_newline(text)
         IN  Transformed(IfdefMscVer \o nl \o PragmaPush \o nl \o PragmaDisable \o Marker4456 \o nl
                             \o Endif \o nl \o nl \o text
                             \o nl \o IfdefMscVer \o nl \o PragmaPop \o nl \o Endif \o nl, TRUE)

\* the scaled sizes of the patcher: a literal is split when its content is
\* longer than MAX_RAW_LITERAL_CONTENT, into chunks of RAW_CHUNK_SIZE
MAX_RAW_LITERAL_CONTENT == 4
RAW_CHUNK_SIZE == 2

Transform(transform_fn, text) ==
    CASE transform_fn = "split_oversize_raw_string_literals" ->
            split_oversize_raw_string_literals(text, MAX_RAW_LITERAL_CONTENT, RAW_CHUNK_SIZE)
      [] transform_fn = "ensure_crt_secure_no_warnings" -> ensure_crt_secure_no_warnings(text)
      [] transform_fn = "ensure_msvc_disable_warning_4456" ->
            ensure_msvc_disable_warning_4456(text)

\* a file of the repository: absent, bytes that are not UTF-8, or a text with
\* or without a byte order mark in front
NoSuchFile == [k |-> "missing", bom |-> FALSE, text |-> <<>>]
NotUtf8 == [k |-> "undecodable", bom |-> FALSE, text |-> <<>>]
SourceFile(bom, text) == [k |-> "file", bom |-> bom, text |-> text]

\* _read_text drops the byte order mark; _write_text never writes one
read_text(file) == file.text
write_text(text) == SourceFile(FALSE, text)

Patched(file, changed, wrote, raised) ==
    [file |-> file, changed |-> changed, wrote |-> wrote, raised |-> raised]

patch_file(file, transform_fn, write) ==
    IF file.k = "missing" THEN Patched(file, FALSE, FALSE, FALSE)
    ELSE IF file.k = "undecodable" THEN Patched(file, FALSE, FALSE, TRUE)
    ELSE The({ IF r.changed /\ write THEN Patched(write_text(r.text), TRUE, TRUE, FALSE)
               ELSE Patched(file, r.changed, FALSE, FALSE) :
               r \in {Transform(transform_fn, read_text(file))} })

Targets ==
    << <<"src/isocity/Dossier.cpp", "split_oversize_raw_string_literals">>,
       <<"src/isocity/AppPaths.cpp", "ensure_crt_secure_no_warnings">>,
       <<"src/isocity/Sim.cpp", "ensure_msvc_disable_warning_4456">>,
       <<"src/isocity/Pathfinding.cpp", "ensure_msvc_disable_warning_4456">> >>

Paths == {Targets[t][1] : t \in 1..Len(Targets)}

RunOf(files, changed, wrote, status) ==
    [repo |-> files, changed_by |-> changed, written |-> wrote, status |-> status]

RECURSIVE PatchFrom(_, _, _)
PatchNext(t, run, write, r) ==
    IF r.raised THEN [run EXCEPT !.status = 1]
    ELSE The({ PatchFrom(t + 1, next, write) :
               next \in {RunOf([run.repo EXCEPT ![Targets[t][1]] = r.file],
                               [run.changed_by EXCEPT ![Targets[t][1]] = r.changed],
                               IF r.wrote THEN run.written \cup {Targets[t][1]}
                               ELSE run.written,
                               -1)} })

PatchFrom(t, run, write) ==
    IF t > Len(Targets) THEN [run EXCEPT !.status = 0]
    ELSE The({ PatchNext(t, run, write, r) :
               r \in {patch_file(run.repo[Targets[t][1]], Targets[t][2], write)} })

\* main: the four files in order; an exception ends the run with status 1
patcher_main(files, dry) ==
    PatchFrom(1, RunOf(files, [p \in Paths |-> FALSE], {}, -1), ~dry)

(***************************************************************************)
(* Runs of fix_msvc_issues.py over a repository.                           *)
(***************************************************************************)
MaxRuns == 2

Cycle(pattern, n) == [k \in 1..n |-> pattern[((k - 1) % Len(pattern)) + 1]]

ContentPatterns ==
    { <<"a", "b", "c">>,
      <<")", "d", "R", "\"", "(", "a">>,
      <<"a", ")", "\"", "b">> }

\* literal contents of every length up to a little above twice the limit
Contents ==
    { Cycle(pattern, n) : pattern \in ContentPatterns,
                          n \in 0..(2 * MAX_RAW_LITERAL_CONTENT + 1) }

Leads == { <<" ", " ">>, <<"x", "\r", "\n", "\t">>, <<"s", " ", "=", " ">> }

Tails ==
    { <<>>, <<";", "\n">>,
      LiteralLine(<<" ">>, <<>>, <<>>, Cycle(<<"a", "b", "c">>, MAX_RAW_LITERAL_CONTENT + 1)) }

\* prefix and delimiter of the opening R"delim(
Openers == { <<<<>>, <<>>>>, <<<<"u", "8">>, <<"d">>>> }

DossierTexts ==
    { lead \o opener[1] \o <<"R", "\"">> \o opener[2] \o <<"(">> \o content \o close \o tail :
        lead \in Leads, opener \in Openers, content \in Contents,
        close \in {<<>>, <<")", "\"">>, <<")", "d", "\"">>}, tail \in Tails }

DossierPath == Targets[1][1]
AppPathsPath == Targets[2][1]
SimPath == Targets[3][1]
PathfindingPath == Targets[4][1]

Repo(dossier, app_paths, sim, pathfinding) ==
    [p \in Paths |-> IF p = DossierPath THEN dossier
                     ELSE IF p = AppPathsPath THEN app_paths
                     ELSE IF p = SimPath THEN sim
                     ELSE pathfinding]

OversizeDossier ==
    SourceFile(TRUE, <<"\t">> \o LiteralLine(<<>>, <<"L">>, <<"d">>,
                                             Cycle(<<"a", "b", "c">>,
                                                   2 * MAX_RAW_LITERAL_CONTENT + 1)))

AppPathsFiles ==
    { NoSuchFile, NotUtf8, SourceFile(FALSE, <<"x", "\n">>),
      SourceFile(TRUE, <<"a", "\r", "\n">>), SourceFile(FALSE, CrtMacro),
      SourceFile(FALSE, <<"/", "/">> \o CrtMarker) }

SimFiles ==
    { NoSuchFile, NotUtf8, SourceFile(FALSE, <<"x", "\n">>), SourceFile(TRUE, Marker4456) }

PathfindingFiles ==
    { NoSuchFile, SourceFile(FALSE, <<"y">>), SourceFile(FALSE, <<"a", "\r", "\n">>) }

InitPatcher ==
    /\ \/ repo \in { Repo(SourceFile(FALSE, text), NoSuchFile, NoSuchFile, NoSuchFile) :
                     text \in DossierTexts }
       \/ repo \in { Repo(dossier, app_paths, sim, pathfinding) :
                     dossier \in {NoSuchFile, NotUtf8, OversizeDossier},
                     app_paths \in AppPathsFiles, sim \in SimFiles,
                     pathfinding \in PathfindingFiles }
    /\ dry_run = FALSE
    /\ changed_by = [p \in Paths |-> FALSE]
    /\ written = {}
    /\ repo_before = repo
    /\ wrote_before = FALSE
    /\ runs = 0
    /\ patcher_status = -1
    /\ pc = "fix_msvc_issues"
    /\ IdleParse
    /\ IdleDiscover
    /\ IdleTicks
    /\ IdleTiles
    /\ IdleMain
    /\ IdleAnalysis
    /\ IdleSummary
    /\ IdleInsights

\* one run of the patcher, with or without --dry-run
PatcherMain ==
    /\ pc = "fix_msvc_issues"
    /\ runs < MaxRuns
    /\ \E dry \in BOOLEAN :
          /\ dry_run' = dry
          /\ \E run \in {patcher_main(repo, dry)} :
                /\ repo' = run.repo
                /\ changed_by' = run.changed_by
                /\ written' = run.written
                /\ patcher_status' = run.status
    /\ repo_before' = repo
    /\ wrote_before' = (wrote_before \/ (runs >= 1 /\ ~dry_run))
    /\ runs' = runs + 1
    /\ UNCHANGED <<parseVars, discoverVars, engineVars, analysisVars, summaryVars,
                   insightsVars, pc>>

NextPatcher == PatcherMain

SpecPatcher == InitPatcher /\ [][NextPatcher]_vars


(***************************************************************************)
(* Properties of the parsing helpers.                                      *)
(***************************************************************************)
AbsentOrFinite(r) == r = None \/ r.k = "float"

\* C3: for every cell (any string, or the missing cell of a short row)
\* _to_float of the comparison tool and of the insights tool returns absent
\* or a finite float, and never raises.
C3_ParseFloatAbsentOrFinite ==
    /\ parsed.cf # Unset => AbsentOrFinite(parsed.cf)
    /\ parsed.nf # Unset => AbsentOrFinite(parsed.nf)

\* i is floor(f / 10), f in tenths
IsFloorOf(i, f) == i * 10 <= f /\ f < (i + 1) * 10

\* i is f / 10 rounded toward zero, f in tenths
IsTruncOf(i, f) ==
    /\ f >= 0 => i * 10 <= f /\ f < (i + 1) * 10
    /\ f <= 0 => (i - 1) * 10 < f /\ f <= i * 10

IntIsFloorOfFloat(i, f) ==
    (i # Unset /\ f # Unset /\ f.k # "raise") =>
        /\ f.k = "float" => i.k = "int" /\ IsFloorOf(i.v, f.v)
        /\ i = None <=> f = None

IntIsTruncOfFloat(i, f) ==
    (i # Unset /\ f # Unset /\ f.k # "raise") =>
        IF f.k = "float" THEN i.k = "int" /\ IsTruncOf(i.v, f.v) ELSE i = None

\* C4 as claimed: _to_int(s) is floor(_to_float(s)) whenever _to_float(s) is
\* present, and is absent exactly when _to_float(s) is absent, in both tools.
C4_ParseIntIsFloor ==
    /\ IntIsFloorOfFloat(parsed.ci, parsed.cf)
    /\ IntIsFloorOfFloat(parsed.ni, parsed.nf)

\* C4 amended: _to_int(s) is _to_float(s) rounded toward zero whenever
\* _to_float(s) is a finite number, and is absent whenever _to_float(s) is
\* absent or not finite, in both tools.
C4_ParseIntTruncates ==
    /\ IntIsTruncOfFloat(parsed.ci, parsed.cf)
    /\ IntIsTruncOfFloat(parsed.ni, parsed.nf)

\* "-1.5" has been parsed by _to_float and _to_int of both tools
C4_NegativeHalfParsed ==
    /\ cell = <<"-", "1", ".", "5">>
    /\ parsed.cf = Fin(-15) /\ parsed.ci = Integer(-1)
    /\ parsed.nf = Fin(-15) /\ parsed.ni = Integer(-1)

(***************************************************************************)
(* Properties of discover_numeric_columns.                                 *)
(***************************************************************************)
\* the cells of ColumnCells by what the claim says of them
EmptyCells == { <<>>, <<" ">> }
NumberCells == { <<"5">>, <<" ", "2", ".", "5">> }

SeenOf(rows) ==
    Cardinality({i \in 1..Len(rows) : rows[i][1][2] \notin EmptyCells})
ValidOf(rows) ==
    Cardinality({i \in 1..Len(rows) : rows[i][1][2] \in NumberCells})

\* C5: a column is classified numeric iff seen > 0 and valid/seen >=
\* threshold, seen counting the rows with a non-empty trimmed value and valid
\* those of them that parse; 'nan', 'null', 'none' are seen but not valid.
C5_NumericIffThreshold ==
    pc = "done" =>
        (kM \in Range(numeric) <=>
            /\ SeenOf(column) > 0
            /\ ValidOf(column) * 100 >= min_valid_frac * SeenOf(column))

\* three of four non-empty values parse: exactly on the 0.75 threshold
C5_OnThreshold ==
    /\ pc = "done"
    /\ numeric = <<kM>>
    /\ min_valid_frac = MinValidFracTicks
    /\ SeenOf(column) = 4 /\ ValidOf(column) = 3
    /\ \E i \in 1..Len(column) : column[i][1][2] = <<"n", "a", "n">>

(***************************************************************************)
(* Properties of compare_ticks.                                            *)
(***************************************************************************)
\* the integer day keys of a tick table
DayKeySet(rows) ==
    { key.v : key \in { CmpToInt(Get(rows[i], kDay, <<>>)) : i \in 1..Len(rows) } \ {None} }

HasDayColumn(rows) == rows # <<>> /\ kDay \in Range(Keys(rows[1]))

CommonDaySet == DayKeySet(rows_ticks_a) \cap DayKeySet(rows_ticks_b)

MetricNames(metrics) == { metrics[i].metric : i \in 1..Len(metrics) }

TicksAligned(days) ==
    /\ ticks_cmp.common_days = Cardinality(days)
    /\ ticks_cmp.day_min = Integer(CHOOSE d \in days : \A o \in days : d <= o)
    /\ ticks_cmp.day_max = Integer(CHOOSE d \in days : \A o \in days : d >= o)
    /\ \A i \in 1..Len(ticks_cmp.metrics) :
          \/ ticks_cmp.metrics[i].max_abs_day = None
          \/ ticks_cmp.metrics[i].max_abs_day.v \in days

TicksEmpty ==
    /\ ticks_cmp.common_days = 0
    /\ ticks_cmp.day_min = None
    /\ ticks_cmp.day_max = None
    /\ ticks_cmp.metrics = <<>>

\* C1: the days compare_ticks compares are the intersection of the integer
\* day keys of table A and table B: common_days is its size, day_min and
\* day_max are its smallest and largest member; when a table is empty or has
\* no column named 'day', or the intersection is empty, common_days is 0,
\* day_min and day_max are absent and the metric list is empty.
C1_TickDaysAreTheIntersection ==
    pc = "ticks_done" =>
        \A days \in {CommonDaySet} :
            IF \/ ~HasDayColumn(rows_ticks_a)
               \/ ~HasDayColumn(rows_ticks_b)
               \/ days = {}
            THEN TicksEmpty
            ELSE TicksAligned(days)

\* table A lists day 2 before day 1, and both days are common
C1_TwoCommonDaysOutOfOrder ==
    /\ pc = "ticks_done"
    /\ Len(rows_ticks_a) = 2
    /\ Get(rows_ticks_a[1], kDay, <<>>) = <<"2">>
    /\ Get(rows_ticks_a[2], kDay, <<>>) = <<"1">>
    /\ ticks_cmp.common_days = 2
    /\ ticks_cmp.day_min = Integer(1)
    /\ ticks_cmp.day_max = Integer(2)

\* the days in both tables, ascending
CommonDays == SortedInts(CommonDaySet)

\* the value of column c in the row a table keeps for day d: the last row
\* with that day
ValueOnDay(rows, d, c) ==
    CmpToFloat(Get(rows[CHOOSE i \in 1..Len(rows) :
                          /\ CmpToInt(Get(rows[i], kDay, <<>>)) = Integer(d)
                          /\ \A j \in (i + 1)..Len(rows) :
                                CmpToInt(Get(rows[j], kDay, <<>>)) # Integer(d)],
                   c, <<>>))

\* the values of column c on the days, in their order
SeriesOnDays(rows, days, c) == [i \in 1..Len(days) |-> ValueOnDay(rows, days[i], c)]

MeanOfFinite(series) ==
    IF FiniteValues(series) = <<>> THEN None
    ELSE Rat(SumSeq(FiniteValues(series)), Len(FiniteValues(series)))

\* the positions where both series are finite
BothFinite(sa, sb) == {i \in 1..Len(sa) : sa[i] # None /\ sb[i] # None}

RECURSIVE SumOfSquares(_, _, _)
SumOfSquares(sa, sb, I) ==
    IF I = {} THEN 0
    ELSE LET i == CHOOSE x \in I : TRUE
         IN  (sb[i].v - sa[i].v) * (sb[i].v - sa[i].v) + SumOfSquares(sa, sb, I \ {i})

SameOptionalRat(p, q) == IF p = None \/ q = None THEN p = q ELSE RatEq(p, q)

\* what C13 says of a tick metric m, given its two series on the common days
TickDeltasOf(m, sa, sb) ==
    /\ m.delta_last = IF sa[Len(sa)] = None \/ sb[Len(sb)] = None THEN None
                      ELSE Fin(sb[Len(sb)].v - sa[Len(sa)].v)
    /\ SameOptionalRat(m.a_mean, MeanOfFinite(sa))
    /\ SameOptionalRat(m.b_mean, MeanOfFinite(sb))
    /\ SameOptionalRat(m.delta_mean,
                       IF MeanOfFinite(sa) = None \/ MeanOfFinite(sb) = None THEN None
                       ELSE RatSub(MeanOfFinite(sb), MeanOfFinite(sa)))
    /\ SameOptionalRat(m.rmse_squared,
                       IF BothFinite(sa, sb) = {} THEN None
                       ELSE Rat(SumOfSquares(sa, sb, BothFinite(sa, sb)),
                                Cardinality(BothFinite(sa, sb))))

\* C13: for each tick metric, delta_last is B minus A at the last common day
\* (absent if either value there is absent), delta_mean is the mean of B's
\* finite values on the common days minus the mean of A's, and rmse is the
\* root of the mean of (B - A)^2 over the common days where both values are
\* finite, absent when there is none (rmse is held as its square).
C13_TickDeltas ==
    pc = "ticks_done" =>
        \A days \in {CommonDays} :
            \A i \in 1..Len(ticks_cmp.metrics) :
                \A sa \in {SeriesOnDays(rows_ticks_a, days, ticks_cmp.metrics[i].metric)},
                   sb \in {SeriesOnDays(rows_ticks_b, days, ticks_cmp.metrics[i].metric)} :
                    TickDeltasOf(ticks_cmp.metrics[i], sa, sb)

\* A has a day that B lacks and B has an empty money cell on the last common
\* day: money has no delta_last, its means are over days 1..2 for A and day 1
\* for B, and its rmse is over day 1 alone
C13_AbsentOnLastCommonDay ==
    /\ pc = "ticks_done"
    /\ Len(rows_ticks_a) = 3
    /\ ticks_cmp.common_days = 2
    /\ \E i \in 1..Len(ticks_cmp.metrics) :
          /\ ticks_cmp.metrics[i].metric = kMoney
          /\ ticks_cmp.metrics[i].delta_last = None
          /\ RatEq(ticks_cmp.metrics[i].a_mean, Rat(20, 1))
          /\ RatEq(ticks_cmp.metrics[i].b_mean, Rat(10, 1))
          /\ RatEq(ticks_cmp.metrics[i].delta_mean, Rat(-10, 1))
          /\ RatEq(ticks_cmp.metrics[i].rmse_squared, Rat(0, 1))

\* what C14 says of a tick metric m, given its two series on the common days
TickMaxAbsOf(m, days, sa, sb) ==
    IF BothFinite(sa, sb) = {}
    THEN m.max_abs_day = None /\ m.max_abs_delta = None
    ELSE \E i \in BothFinite(sa, sb) :
            /\ m.max_abs_day = Integer(days[i])
            /\ m.max_abs_delta = Fin(sb[i].v - sa[i].v)
            /\ \A j \in BothFinite(sa, sb) :
                  /\ Abs(sb[j].v - sa[j].v) <= Abs(sb[i].v - sa[i].v)
                  /\ Abs(sb[j].v - sa[j].v) = Abs(sb[i].v - sa[i].v) => i <= j

\* C14: for each tick metric, max_abs_delta is the signed delta B - A of
\* largest absolute value over the common days where both values are finite
\* and max_abs_day is the earliest such day when several tie, also when every
\* delta is 0; both are absent iff no common day has both values finite.
C14_MaxAbsDeltaEarliestDay ==
    pc = "ticks_done" =>
        \A days \in {CommonDays} :
            \A i \in 1..Len(ticks_cmp.metrics) :
                \A sa \in {SeriesOnDays(rows_ticks_a, days, ticks_cmp.metrics[i].metric)},
                   sb \in {SeriesOnDays(rows_ticks_b, days, ticks_cmp.metrics[i].metric)} :
                    TickMaxAbsOf(ticks_cmp.metrics[i], days, sa, sb)

\* pop moves by +2 on day 1 and by -2 on day 2, and money by 0 on both:
\* each metric reports day 1
C14_TieOnTwoDays ==
    /\ pc = "ticks_done"
    /\ ticks_cmp.common_days = 2
    /\ \E i \in 1..Len(ticks_cmp.metrics) :
          /\ ticks_cmp.metrics[i].metric = kPop
          /\ ticks_cmp.metrics[i].max_abs_day = Integer(1)
          /\ ticks_cmp.metrics[i].max_abs_delta = Fin(20)
          /\ ticks_cmp.metrics[i].delta_last = Fin(-20)
    /\ \E i \in 1..Len(ticks_cmp.metrics) :
          /\ ticks_cmp.metrics[i].metric = kMoney
          /\ ticks_cmp.metrics[i].max_abs_day = Integer(1)
          /\ ticks_cmp.metrics[i].max_abs_delta = Fin(0)

\* C15: the tick metric list is in non-increasing order of |delta_last|, and
\* every metric whose delta_last is absent comes after every metric whose
\* delta_last is present, a delta_last of 0 included.
C15_TickMetricsByDeltaLast ==
    pc = "ticks_done" =>
        \A i \in 1..Len(ticks_cmp.metrics), j \in 1..Len(ticks_cmp.metrics) :
            i < j =>
               /\ ticks_cmp.metrics[i].delta_last = None
                     => ticks_cmp.metrics[j].delta_last = None
               /\ (ticks_cmp.metrics[i].delta_last # None
                     /\ ticks_cmp.metrics[j].delta_last # None)
                     => Abs(ticks_cmp.metrics[i].delta_last.v)
                            >= Abs(ticks_cmp.metrics[j].delta_last.v)

\* pop has delta_last 0 and money has none: pop is listed first, against
\* the order of the names
C15_ZeroBeforeAbsent ==
    /\ pc = "ticks_done"
    /\ Len(ticks_cmp.metrics) = 2
    /\ ticks_cmp.metrics[1].metric = kPop
    /\ ticks_cmp.metrics[1].delta_last = Fin(0)
    /\ ticks_cmp.metrics[2].metric = kMoney
    /\ ticks_cmp.metrics[2].delta_last = None

(***************************************************************************)
(* Properties of the metric sets.                                          *)
(***************************************************************************)
NumericOnBoth(rows_a, rows_b, frac) ==
    Range(DiscoverNumericColumns(rows_a, frac))
        \cap Range(DiscoverNumericColumns(rows_b, frac))

TickMetricsOnlyNumericOnBoth ==
    pc = "ticks_done" =>
        MetricNames(ticks_cmp.metrics)
            \subseteq NumericOnBoth(rows_ticks_a, rows_ticks_b, MinValidFracTicks) \ {kDay}

TileMetricsOnlyNumericOnBoth ==
    pc = "tiles_done" =>
        MetricNames(tiles_cmp.metrics)
            \subseteq NumericOnBoth(rows_tiles_a, rows_tiles_b, MinValidFracTiles)

\* C2 as stated: a metric list holds only columns numeric on both sides at
\* the section's threshold, and the tick metric set is exactly the columns
\* numeric on both sides, minus the day key.
C2_TickMetricSetIsExact ==
    /\ TickMetricsOnlyNumericOnBoth
    /\ TileMetricsOnlyNumericOnBoth
    /\ pc = "ticks_done" =>
          MetricNames(ticks_cmp.metrics)
              = NumericOnBoth(rows_ticks_a, rows_ticks_b, MinValidFracTicks) \ {kDay}

\* C2: a metric list holds only columns numeric on both sides at the
\* section's threshold, and when the tick tables have a common day the tick
\* metric set is exactly the columns numeric on both sides, minus the day key;
\* with no common day it is empty.
C2_TickMetricSetIsExactOnCommonDays ==
    /\ TickMetricsOnlyNumericOnBoth
    /\ TileMetricsOnlyNumericOnBoth
    /\ pc = "ticks_done" =>
          MetricNames(ticks_cmp.metrics)
              = IF ticks_cmp.common_days > 0
                THEN NumericOnBoth(rows_ticks_a, rows_ticks_b, MinValidFracTicks) \ {kDay}
                ELSE {}

\* pop is numeric in A and below the threshold in B, on a common day
C2_NumericInAOnly ==
    /\ pc = "ticks_done"
    /\ ticks_cmp.common_days > 0
    /\ kPop \in Range(DiscoverNumericColumns(rows_ticks_a, MinValidFracTicks))
    /\ kPop \in Range(Keys(rows_ticks_b[1]))
    /\ kPop \notin Range(DiscoverNumericColumns(rows_ticks_b, MinValidFracTicks))
    /\ ticks_cmp.metrics = <<>>

(***************************************************************************)
(* Properties of compare_tile_metrics.                                     *)
(***************************************************************************)
\* a header with none of the names x, tile_x, tx or none of y, tile_y, ty
LacksKeyColumns(header) ==
    \/ Range(header) \cap {kX, kTileX, kTx} = {}
    \/ Range(header) \cap {kY, kTileY, kTy} = {}

BothTilesKeyed ==
    /\ rows_tiles_a # <<>>
    /\ rows_tiles_b # <<>>
    /\ ~LacksKeyColumns(header_tiles_a)
    /\ ~LacksKeyColumns(header_tiles_b)

\* the rows of the two tables by coordinate
TileIndexA == TileIndex(rows_tiles_a, InferTileKeyCols(header_tiles_a))
TileIndexB == TileIndex(rows_tiles_b, InferTileKeyCols(header_tiles_b))

\* the columns the tile comparison compares
ComparableTileMetrics ==
    Range(TileCols(rows_tiles_a, rows_tiles_b,
                   InferTileKeyCols(header_tiles_a),
                   InferTileKeyCols(header_tiles_b)))

\* the value of a metric at a coordinate of a table indexed by coordinate
ValueAt(idx, key, metric) == CmpToFloat(Get(idx[key], metric, <<>>))

\* the coordinates of both tables where both values of a metric are finite
FiniteCoordinates(idx_a, idx_b, metric) ==
    { key \in DOMAIN idx_a \cap DOMAIN idx_b :
        /\ ValueAt(idx_a, key, metric) # None
        /\ ValueAt(idx_b, key, metric) # None }

HasEntry(deltas, metric) == \E i \in 1..Len(deltas) : deltas[i][1] = metric

EntryOf(deltas, metric) == deltas[CHOOSE i \in 1..Len(deltas) : deltas[i][1] = metric][2]

CoordinateOf(t) == [k |-> "xy", v |-> 0, e |-> "", x |-> t.x, y |-> t.y]

\* a tile list for a metric, n tiles asked, over the coordinates good
IsTopTileList(tiles, metric, n, good, idx_a, idx_b) ==
    /\ \A i \in 1..Len(tiles) :
          /\ CoordinateOf(tiles[i]) \in good
          /\ tiles[i].a = ValueAt(idx_a, CoordinateOf(tiles[i]), metric)
          /\ tiles[i].b = ValueAt(idx_b, CoordinateOf(tiles[i]), metric)
          /\ tiles[i].delta = Fin(tiles[i].b.v - tiles[i].a.v)
    /\ \A i \in 1..Len(tiles), j \in 1..Len(tiles) :
          i < j => /\ Abs(tiles[i].delta.v) >= Abs(tiles[j].delta.v)
                   /\ CoordinateOf(tiles[i]) # CoordinateOf(tiles[j])
    /\ Len(tiles) = IF n <= 0 THEN 0
                    ELSE IF n < Cardinality(good) THEN n ELSE Cardinality(good)

\* C6: the tile list returned for a requested comparable metric holds only
\* coordinates present in both tables where both values are finite, each with
\* delta = B - A, in non-increasing order of |delta|, and has min(N, number of
\* such coordinates) entries for N >= 0 and none for N <= 0; a list is
\* returned for every such metric when the tables share a coordinate.
C6_TileListIsTopN ==
    (pc = "tiles_done" /\ arg_focus_metrics # <<>>) =>
        \A idx_a \in {TileIndexA}, idx_b \in {TileIndexB}, cols \in {ComparableTileMetrics} :
            /\ \A i \in 1..Len(tiles_cmp.tile_deltas) :
                  tiles_cmp.tile_deltas[i][2].k = "tiles" =>
                      /\ tiles_cmp.tile_deltas[i][1] \in cols
                      /\ \A good \in {FiniteCoordinates(idx_a, idx_b,
                                                        tiles_cmp.tile_deltas[i][1])} :
                            IsTopTileList(tiles_cmp.tile_deltas[i][2].tiles,
                                          tiles_cmp.tile_deltas[i][1],
                                          arg_top_tiles, good, idx_a, idx_b)
            /\ \A m \in Range(arg_focus_metrics) :
                  (BothTilesKeyed /\ m \in cols /\ DOMAIN idx_a \cap DOMAIN idx_b # {})
                      => /\ HasEntry(tiles_cmp.tile_deltas, m)
                         /\ EntryOf(tiles_cmp.tile_deltas, m).k = "tiles"

\* one tile asked where two coordinates have finite values, the larger
\* delta at one of them
C6_TopOneOfTwo ==
    /\ pc = "tiles_done"
    /\ arg_top_tiles = 1
    /\ arg_focus_metrics = <<kLandValue>>
    /\ Cardinality(FiniteCoordinates(TileIndexA, TileIndexB, kLandValue)) = 2
    /\ HasEntry(tiles_cmp.tile_deltas, kLandValue)
    /\ EntryOf(tiles_cmp.tile_deltas, kLandValue).k = "tiles"
    /\ Len(EntryOf(tiles_cmp.tile_deltas, kLandValue).tiles) = 1
    /\ EntryOf(tiles_cmp.tile_deltas, kLandValue).tiles[1].delta = Fin(20)

\* what C8 says of a requested metric, cols the comparable metric set
RequestedMetricHandled(m, cols) ==
    /\ HasEntry(tiles_cmp.tile_deltas, m)
    /\ IF m \in cols
       THEN EntryOf(tiles_cmp.tile_deltas, m).k = "tiles"
       ELSE /\ EntryOf(tiles_cmp.tile_deltas, m).k = "note"
            /\ EntryOf(tiles_cmp.tile_deltas, m).note = NoteNotPresent

\* C8 as stated: when focus metrics are requested and both tile tables are
\* present with inferable keys, every requested metric outside the comparable
\* metric set has a 'not present' note in tile_deltas and every other
\* requested metric has a tile list.
C8_EveryRequestedMetricHandled ==
    (pc = "tiles_done" /\ arg_focus_metrics # <<>> /\ BothTilesKeyed) =>
        \A cols \in {ComparableTileMetrics} :
            \A m \in Range(arg_focus_metrics) : RequestedMetricHandled(m, cols)

\* C8: when focus metrics are requested, both tile tables are present with
\* inferable keys and they share a coordinate, every requested metric with a
\* non-empty name outside the comparable metric set has a 'not present' note
\* in tile_deltas and every other one has a tile list, in whatever order
\* they were requested; tile_deltas has no other entry.
C8_RequestedMetricsHandledOnOverlap ==
    (/\ pc = "tiles_done"
     /\ arg_focus_metrics # <<>>
     /\ BothTilesKeyed
     /\ DOMAIN TileIndexA \cap DOMAIN TileIndexB # {})
        => \A cols \in {ComparableTileMetrics} :
              /\ \A m \in Range(arg_focus_metrics) \ {<<>>} :
                    RequestedMetricHandled(m, cols)
              /\ \A i \in 1..Len(tiles_cmp.tile_deltas) :
                    tiles_cmp.tile_deltas[i][1] \in Range(arg_focus_metrics) \ {<<>>}

\* a metric outside the comparable set is requested before one inside it
C8_AbsentMetricFirst ==
    /\ pc = "tiles_done"
    /\ arg_focus_metrics = <<kZz, kLandValue>>
    /\ Len(tiles_cmp.tile_deltas) = 2
    /\ EntryOf(tiles_cmp.tile_deltas, kZz).k = "note"
    /\ EntryOf(tiles_cmp.tile_deltas, kLandValue).k = "tiles"
    /\ EntryOf(tiles_cmp.tile_deltas, kLandValue).tiles # <<>>

\* the key columns inferred for either table, and the categorical names
ExcludedTileColumns ==
    { InferTileKeyCols(header_tiles_a).xcol, InferTileKeyCols(header_tiles_a).ycol,
      InferTileKeyCols(header_tiles_b).xcol, InferTileKeyCols(header_tiles_b).ycol,
      kLevel, kDistrict, kVariation }

\* C11 as stated: the tile metric list never contains an inferred key column
\* of either side nor 'level', 'district' or 'variation', and every other
\* column numeric on both sides at the 0.90 threshold appears in it.
C11_TileMetricSetIsExact ==
    pc = "tiles_done" =>
        MetricNames(tiles_cmp.metrics)
            = NumericOnBoth(rows_tiles_a, rows_tiles_b, MinValidFracTiles)
                \ ExcludedTileColumns

\* C11: the tile metric list never contains an inferred key column of either
\* side nor 'level', 'district' or 'variation'; when both tables have rows
\* and key columns are inferred on both sides, every other column numeric
\* on both sides at the 0.90 threshold appears in it, and otherwise the list
\* is empty.
C11_TileMetricSetIsExactWhenKeyed ==
    pc = "tiles_done" =>
        MetricNames(tiles_cmp.metrics)
            = IF BothTilesKeyed
              THEN NumericOnBoth(rows_tiles_a, rows_tiles_b, MinValidFracTiles)
                     \ ExcludedTileColumns
              ELSE {}

\* level and the key columns are numeric on both sides and are left out,
\* while land_value and traffic are compared
C11_NumericLevelLeftOut ==
    /\ pc = "tiles_done"
    /\ {kX, kY, kLevel, kLandValue, kTraffic}
          \subseteq NumericOnBoth(rows_tiles_a, rows_tiles_b, MinValidFracTiles)
    /\ MetricNames(tiles_cmp.metrics) = {kLandValue, kTraffic}

\* the finite values of a column over all rows of a table, in row order
ColumnValues(rows, c) ==
    FiniteValues([i \in 1..Len(rows) |-> CmpToFloat(Get(rows[i], c, <<>>))])

\* st summarises the values xs: their number, mean, smallest and largest
SummarisesValues(st, xs) ==
    /\ st.count = Len(xs)
    /\ RatEq(st.mean, Rat(SumSeq(xs), Len(xs)))
    /\ st.min \in Range(xs) /\ \A i \in 1..Len(xs) : st.min <= xs[i]
    /\ st.max \in Range(xs) /\ \A i \in 1..Len(xs) : st.max >= xs[i]

TileDeltasAreBMinusA(m) ==
    /\ RatEq(m.delta_mean, RatSub(m.b.mean, m.a.mean))
    /\ RatEq(m.delta_p50, RatSub(m.b.p50, m.a.p50))
    /\ RatEq(m.delta_p90, RatSub(m.b.p90, m.a.p90))
    /\ RatEq(m.delta_p99, RatSub(m.b.p99, m.a.p99))

\* C12: for each tile metric the statistics of A and of B are those of all
\* rows of the respective table, whether or not their coordinates are common;
\* delta_mean, delta_p50, delta_p90 and delta_p99 are the B statistic minus
\* the A statistic; and the metric list is in non-increasing order of
\* |delta_mean|.
C12_TileStatsIndependentAndSorted ==
    pc = "tiles_done" =>
        /\ \A i \in 1..Len(tiles_cmp.metrics) :
              \A m \in {tiles_cmp.metrics[i]} :
                 /\ SummarisesValues(m.a, ColumnValues(rows_tiles_a, m.metric))
                 /\ SummarisesValues(m.b, ColumnValues(rows_tiles_b, m.metric))
                 /\ TileDeltasAreBMinusA(m)
        /\ \A i \in 1..Len(tiles_cmp.metrics), j \in 1..Len(tiles_cmp.metrics) :
              i < j => ~RatLess(RatAbs(tiles_cmp.metrics[i].delta_mean),
                                RatAbs(tiles_cmp.metrics[j].delta_mean))

\* A has land_value 10 and 20, B has 12 and 20 with only the first
\* coordinate common: delta_mean is 1, and traffic, whose mean moved by 4,
\* is listed before land_value
C12_MeanOverAllRows ==
    /\ pc = "tiles_done"
    /\ ColumnValues(rows_tiles_a, kLandValue) = <<100, 200>>
    /\ ColumnValues(rows_tiles_b, kLandValue) = <<120, 200>>
    /\ Cardinality(DOMAIN TileIndexA \cap DOMAIN TileIndexB) = 1
    /\ Len(tiles_cmp.metrics) = 2
    /\ tiles_cmp.metrics[1].metric = kTraffic
    /\ tiles_cmp.metrics[2].metric = kLandValue
    /\ RatEq(tiles_cmp.metrics[2].delta_mean, Rat(10, 1))
    /\ RatEq(tiles_cmp.metrics[1].delta_mean, Rat(40, 1))

\* C16 as stated: when focus metrics are requested and the two tile tables
\* share no (x,y) coordinate, the result carries the no-overlap note and an
\* empty tile_deltas.
C16_NoOverlapGivesNote ==
    (/\ pc = "tiles_done"
     /\ arg_focus_metrics # <<>>
     /\ DOMAIN TileIndexA \cap DOMAIN TileIndexB = {})
        => /\ tiles_cmp.note = NoteNoOverlap
           /\ tiles_cmp.tile_deltas = <<>>

\* C16: when the two tile tables share no (x,y) coordinate, tile_deltas is
\* empty whatever was requested; the result carries the no-overlap note when
\* moreover both tables have rows and key columns and a focus metric with a
\* non-empty name is requested, and never otherwise.
C16_NoOverlapGivesNoteWhenKeyed ==
    pc = "tiles_done" =>
        /\ DOMAIN TileIndexA \cap DOMAIN TileIndexB = {}
              => tiles_cmp.tile_deltas = <<>>
        /\ tiles_cmp.note = NoteNoOverlap
              <=> /\ BothTilesKeyed
                  /\ Range(arg_focus_metrics) \ {<<>>} # {}
                  /\ DOMAIN TileIndexA \cap DOMAIN TileIndexB = {}

\* both tables are keyed and have land_value, at different coordinates, and
\* land_value is requested: the metric is compared and the note is recorded
C16_DisjointCoordinates ==
    /\ pc = "tiles_done"
    /\ BothTilesKeyed
    /\ arg_focus_metrics = <<kLandValue>>
    /\ DOMAIN TileIndexA # {}
    /\ DOMAIN TileIndexB # {}
    /\ DOMAIN TileIndexA \cap DOMAIN TileIndexB = {}
    /\ tiles_cmp.note = NoteNoOverlap
    /\ tiles_cmp.tile_deltas = <<>>
    /\ tiles_cmp.metrics # <<>>

\* C9: the comparison infers the tile key columns of each side as the
\* schema-discovery rule of load_tile_metrics_csv does (a case-insensitive
\* match of x / tile_x / ix / col and y / tile_y / iy / row, else the first
\* two columns with an integer in the sample row), so two tables that the
\* rule can key are compared, not rejected.
C9_KeyColumnsFollowDiscoveryRule ==
    (/\ pc = "tiles_done"
     /\ rows_tiles_a # <<>>
     /\ rows_tiles_b # <<>>
     /\ LoadTileKeyCols(header_tiles_a, rows_tiles_a) # NoKeyCols
     /\ LoadTileKeyCols(header_tiles_b, rows_tiles_b) # NoKeyCols)
        => tiles_cmp.note # NoteNoKeys

\* C10: when both tile tables have rows and key inference fails for a side,
\* the result carries the note, and its metric list and tile_deltas are empty,
\* whatever focus metrics were requested.
C10_NoKeysGivesNoteAndNothingElse ==
    (/\ pc = "tiles_done"
     /\ rows_tiles_a # <<>>
     /\ rows_tiles_b # <<>>
     /\ LacksKeyColumns(header_tiles_a) \/ LacksKeyColumns(header_tiles_b))
        => /\ tiles_cmp.note = NoteNoKeys
           /\ tiles_cmp.metrics = <<>>
           /\ tiles_cmp.tile_deltas = <<>>
           /\ tiles_cmp.present_a
           /\ tiles_cmp.present_b

\* table B has no key columns while A has, and land_value is requested
C10_OneSideWithoutKeys ==
    /\ pc = "tiles_done"
    /\ header_tiles_a = <<kX, kY, kLandValue>>
    /\ rows_tiles_a # <<>>
    /\ header_tiles_b = <<kLandValue>>
    /\ rows_tiles_b # <<>>
    /\ arg_focus_metrics = <<kLandValue>>
    /\ tiles_cmp.note = NoteNoKeys

(***************************************************************************)
(* Properties of a run of the comparison tool.                             *)
(***************************************************************************)
\* C7: a run with --top 0 and a comparable focus metric writes an empty
\* per-tile delta list for that metric and exits 0.
C7_TopZeroWritesEmptyTileList ==
    (pc = "exited" /\ args_top = 0) =>
        /\ exit_code = 0
        /\ \A i \in 1..Len(out_obj.tiles.tile_deltas) :
              out_obj.tiles.tile_deltas[i][2].k = "tiles"
                  => out_obj.tiles.tile_deltas[i][2].tiles = <<>>

(***************************************************************************)
(* Properties of gini and compute_stats.                                   *)
(***************************************************************************)
DLeq(a, b) == ~DLess(b, a)

\* the finite values of the series the functions were applied to
StatFinite == DFiniteValues(stat_values)

IsConstantSeries(xs) == \A i, j \in 1..Len(xs) : xs[i] = xs[j]

\* the sum of the values after the shift that makes them non-negative
ShiftedSum(xs) == DSum(DSorted(GiniShifted(xs, DMin(xs))))

\* C17: gini is absent exactly when the series has no finite value; otherwise
\* it lies in [0, 1], is exactly 0 for a constant series and whenever the
\* shifted sum is at most 0, and is 0.75 for [0, 0, 0, 1].
C17_GiniContract ==
    pc = "stats_done" =>
        \A xs \in {StatFinite} :
            /\ (stat_gini = None) <=> (xs = <<>>)
            /\ xs # <<>> =>
                /\ IsDouble(stat_gini)
                /\ DLeq(DZero, stat_gini)
                /\ DLeq(stat_gini, DOfInt(1))
                /\ IsConstantSeries(xs) => stat_gini = DZero
                /\ DLeq(ShiftedSum(xs), DZero) => stat_gini = DZero
            /\ stat_values = OneOfFour => stat_gini = DOfDecimal(75, 100)

\* the standard median of a sorted series
MedianOf(xs) ==
    IF Len(xs) % 2 = 1 THEN xs[(Len(xs) + 1) \div 2]
    ELSE DDiv(DAdd(xs[Len(xs) \div 2], xs[Len(xs) \div 2 + 1]), DOfInt(2))

\* C18: compute_stats is absent exactly when the series has no finite value;
\* otherwise count is the number of finite values, min <= p10 <= p50 <= p90
\* <= p99 <= max, p50 is the standard median, and for one value every
\* percentile, min, max and mean equal it and stdev is 0.
C18_StatsContract ==
    pc \in {"gini", "stats_done"} =>
        \A xs \in {DSorted(StatFinite)}, st \in {stat_stats} :
            /\ (st = None) <=> (xs = <<>>)
            /\ xs # <<>> =>
                /\ st.count = Len(xs)
                /\ DLeq(st.min, st.p10)
                /\ DLeq(st.p10, st.p50)
                /\ DLeq(st.p50, st.p90)
                /\ DLeq(st.p90, st.p99)
                /\ DLeq(st.p99, st.max)
                /\ st.p50 = MedianOf(xs)
                /\ Len(xs) = 1 =>
                    /\ \A f \in {"mean", "min", "p10", "p50", "p90", "p99", "max"} :
                           st[f] = xs[1]
                    /\ st.stdev = DZero

(***************************************************************************)
(* Properties of morans_i_grid.                                            *)
(***************************************************************************)
\* the cells of the grid that hold a finite value, numbered from 1 row by row
FiniteCells == {c \in 1..Len(grid_values) : IsDouble(grid_values[c])}

\* cell d is the right or the down neighbour of cell c
IsNeighbourAfter(c, d) ==
    \/ d = c + 1 /\ (c - 1) % grid_w # grid_w - 1
    \/ d = c + grid_w

\* the unordered pairs of 4-adjacent finite cells, the first cell first
AdjacentFinitePairs ==
    {p \in FiniteCells \X FiniteCells : IsNeighbourAfter(p[1], p[2])}

MoranAbsentCase ==
    \/ grid_w <= 0
    \/ grid_h <= 0
    \/ Cardinality(FiniteCells) < 3
    \/ \A c, d \in FiniteCells : grid_values[c] = grid_values[d]
    \/ AdjacentFinitePairs = {}

\* C19: morans_i_grid returns absent whenever w <= 0, h <= 0, fewer than 3
\* cells are finite, the finite cells all hold the same value or no two finite
\* cells are 4-adjacent, and a number in every other case.
C19_MoranAbsentCases ==
    pc = "moran_done" =>
        /\ MoranAbsentCase => moran = None
        /\ ~MoranAbsentCase => IsDouble(moran)

\* the pairs in the order of the first cell and then of the second
PairBefore(p, q) == p[1] < q[1] \/ (p[1] = q[1] /\ p[2] < q[2])

PairsInOrder(pairs) ==
    [i \in 1..Cardinality(pairs) |->
        CHOOSE p \in pairs : Cardinality({q \in pairs : PairBefore(q, p)}) = i - 1]

RECURSIVE PairSum(_, _, _, _)
\* the sum of 2 * (v_a - mean) * (v_b - mean) over the pairs
PairSum(pairs, mean, i, num) ==
    IF i > Len(pairs) THEN num
    ELSE The({ PairSum(pairs, mean, i + 1, next) :
               next \in {DAdd(num, DMul(DMul(DOfInt(2),
                                             DSub(grid_values[pairs[i][1]], mean)),
                                        DSub(grid_values[pairs[i][2]], mean)))} })

\* (n / s0) * (num / denom) with s0 twice the number of pairs
MoranOfPairs(xs, mean, pairs) ==
    DMul(DDiv(DOfInt(Len(xs)), DOfInt(2 * Len(pairs))),
         DDiv(PairSum(pairs, mean, 1, DZero), MoranDenom(xs, mean, 1, DZero)))

\* every cell holds +1.0 or -1.0 and differs from its right and down neighbour
IsCheckerboard ==
    /\ grid_w >= 2
    /\ grid_h >= 2
    /\ \A c \in 1..(grid_w * grid_h) : grid_values[c] \in {DOfInt(1), DOfInt(-1)}
    /\ \A c, d \in 1..(grid_w * grid_h) :
           IsNeighbourAfter(c, d) => grid_values[c] # grid_values[d]

\* C20: the result of morans_i_grid is (n / s0) * (num / denom), where every
\* pair of 4-adjacent finite cells, none across a row end, adds 2 to s0 and
\* 2 * (v_a - mean) * (v_b - mean) to num; it is negative for a checkerboard
\* of +1 and -1 on a grid of at least 2 x 2.
C20_MoranCountsEachPairTwice ==
    pc = "moran_done" =>
        /\ IsDouble(moran) =>
               \A xs \in {DFiniteValues(grid_values)},
                  pairs \in {PairsInOrder(AdjacentFinitePairs)} :
                   /\ pairs # <<>>
                   /\ moran = MoranOfPairs(xs, fmean(xs), pairs)
        /\ IsCheckerboard => IsDouble(moran) /\ DLess(moran, DZero)

\* a 2 x 2 grid whose cells 2 and 3, the end of the first row and the start of
\* the second, are finite, and for which a number is returned
C20_FiniteAcrossRowEnd ==
    /\ pc = "moran_done"
    /\ grid_w = 2
    /\ grid_h = 2
    /\ {2, 3} \subseteq FiniteCells
    /\ IsDouble(moran)

(***************************************************************************)
(* Properties of pearson_corr.                                             *)
(***************************************************************************)
\* the pairs of the two series that pearson_corr is to keep
RetainedPairs == PearsonPairs(corr_a, corr_b)

\* C21: pearson_corr(a, b) and pearson_corr(b, a) are both absent or both the
\* same value, for series with absent entries anywhere and of any lengths.
C21_PearsonSymmetric ==
    pc = "corr_done" => corr_ab = corr_ba

\* series of different lengths with absent or non-finite entries, for which
\* a correlation other than 1.0 is returned
C21_UnevenSeriesCorrelated ==
    /\ pc = "corr_done"
    /\ Len(corr_a) # Len(corr_b)
    /\ \E i \in 1..Len(corr_b) : ~IsDouble(corr_b[i])
    /\ IsDouble(corr_ab)
    /\ corr_ab # DOfInt(1)

IsConstantOn(pairs, side) == \A i, j \in 1..Len(pairs) : pairs[i][side] = pairs[j][side]

\* C22: pearson_corr is absent exactly when fewer than 3 pairs of finite
\* values remain or either series is constant over them; when it is defined
\* its value lies in [-1, 1], and it is 1 when b = 2a + 3 on the pairs.
C22_PearsonContract ==
    pc = "corr_done" =>
        \A pairs \in {RetainedPairs} :
            /\ (corr_ab = None) <=>
                   (Len(pairs) < 3 \/ IsConstantOn(pairs, 1) \/ IsConstantOn(pairs, 2))
            /\ IsDouble(corr_ab) =>
                   /\ DLeq(DOfInt(-1), corr_ab)
                   /\ DLeq(corr_ab, DOfInt(1))
                   /\ (\A i \in 1..Len(pairs) :
                          pairs[i][2] = DAdd(DMul(DOfInt(2), pairs[i][1]), DOfInt(3)))
                      => corr_ab = DOfInt(1)

(***************************************************************************)
(* Properties of the comparison run: failure isolation.                    *)
(***************************************************************************)
\* the table a file gives when it is read on its own
TableOfFile(file) == IF file.k = "csv" THEN ReadCsvRows(file) ELSE NoTable

\* C23: a run never aborts, and whether the ticks or tile table of a dossier
\* is reported present, and its content, depends on that dossier's own file
\* only: an unreadable file of the other dossier does not make it absent.
C23_FailureIsolatedPerSide ==
    pc = "exited" =>
        /\ exit_code = 0
        /\ out_obj.k = "written"
        /\ rows_ticks_a = TableOfFile(file_ticks_a).rows
        /\ rows_ticks_b = TableOfFile(file_ticks_b).rows
        /\ rows_tiles_a = TableOfFile(file_tiles_a).rows
        /\ rows_tiles_b = TableOfFile(file_tiles_b).rows
        /\ out_obj.ticks.present_a = (TableOfFile(file_ticks_a).rows # <<>>)
        /\ out_obj.ticks.present_b = (TableOfFile(file_ticks_b).rows # <<>>)
        /\ out_obj.tiles.present_a = (TableOfFile(file_tiles_a).rows # <<>>)
        /\ out_obj.tiles.present_b = (TableOfFile(file_tiles_b).rows # <<>>)

(***************************************************************************)
(* Properties of compare_summary.                                          *)
(***************************************************************************)
\* the key is given in the loaded summary, with a value that is not null
Given(d, key) == d.k = "dict" /\ Get(d.items, key, None) # None
SameOn(a, b, key) ==
    /\ Given(a, key)
    /\ Given(b, key)
    /\ PyEq(Get(a.items, key, None), Get(b.items, key, None))

\* C25: when both summaries are present, same_seed is a boolean that is true
\* exactly when the seed is given on both sides and equal, and same_size is a
\* boolean that is true exactly when width and height are given on both sides
\* and pairwise equal.
C25_SummaryEqualityFlags ==
    (pc = "summary_done" /\ summary_cmp.present_a /\ summary_cmp.present_b) =>
        /\ summary_cmp.same_seed = Bool(SameOn(sum_a, sum_b, "seed"))
        /\ summary_cmp.same_size = Bool(SameOn(sum_a, sum_b, "width")
                                        /\ SameOn(sum_a, sum_b, "height"))

(***************************************************************************)
(* Properties of the alignment of rows with equal keys.                    *)
(***************************************************************************)
\* the positions of the rows with a key, keys[i] being the key of row i
RowsWithKey(keys, key) == {i \in 1..Len(keys) : keys[i] = key}

\* the last row, in file order, with the key
LastRowWithKey(rows, keys, key) ==
    rows[CHOOSE i \in RowsWithKey(keys, key) : \A j \in RowsWithKey(keys, key) : j <= i]

\* the values of column c in the last rows with the days, in their order
LastValuesOnDays(rows, keys, days, c) ==
    [i \in 1..Len(days) |->
        CmpToFloat(Get(LastRowWithKey(rows, keys, Integer(days[i])), c, <<>>))]

\* a tile of a tile list carries the values of the last rows at its coordinate
TileFromLastRows(t, metric, keys_a, keys_b) ==
    /\ t.a = CmpToFloat(Get(LastRowWithKey(rows_tiles_a, keys_a, CoordinateOf(t)),
                            metric, <<>>))
    /\ t.b = CmpToFloat(Get(LastRowWithKey(rows_tiles_b, keys_b, CoordinateOf(t)),
                            metric, <<>>))
    /\ t.delta = Fin(t.b.v - t.a.v)

\* C27: when a table has several rows with the same key (the same integer
\* day, the same (x, y), also when the cells differ as '2' and '2.7' do), the
\* comparison uses one row per key, the last in file order: common_days counts
\* each common day once, the values of a tick metric are those of the last
\* row of each day, and each tile of a tile list appears once with the values
\* of the last row at its coordinate.
C27_LastRowPerKey ==
    /\ pc = "ticks_done" =>
          \A keys_a \in {DayKeys(rows_ticks_a)}, keys_b \in {DayKeys(rows_ticks_b)} :
             \A days \in {SortedInts({key.v : key \in (Range(keys_a) \cap Range(keys_b))
                                                         \ {None}})} :
                /\ ticks_cmp.common_days = Len(days)
                /\ \A i \in 1..Len(ticks_cmp.metrics) :
                      \A m \in {ticks_cmp.metrics[i]} :
                         TickDeltasOf(m, LastValuesOnDays(rows_ticks_a, keys_a, days, m.metric),
                                         LastValuesOnDays(rows_ticks_b, keys_b, days, m.metric))
    /\ (pc = "tiles_done" /\ BothTilesKeyed) =>
          \A keys_a \in {TileKeys(rows_tiles_a, InferTileKeyCols(header_tiles_a))},
             keys_b \in {TileKeys(rows_tiles_b, InferTileKeyCols(header_tiles_b))} :
             \A i \in 1..Len(tiles_cmp.tile_deltas) :
                \A entry \in {tiles_cmp.tile_deltas[i]} :
                   entry[2].k = "tiles" =>
                      /\ \A j \in 1..Len(entry[2].tiles) :
                            TileFromLastRows(entry[2].tiles[j], entry[1], keys_a, keys_b)
                      /\ \A j \in 1..Len(entry[2].tiles), l \in 1..Len(entry[2].tiles) :
                            j # l => CoordinateOf(entry[2].tiles[j])
                                        # CoordinateOf(entry[2].tiles[l])

\* table A has day 2 and then day 2.7 with another pop, table B has day 2:
\* one common day, and pop is compared with the value of the row of day 2.7
C27_TruncatedDayCollides ==
    /\ pc = "ticks_done"
    /\ Len(rows_ticks_a) = 2
    /\ Get(rows_ticks_a[1], kDay, <<>>) = <<"2">>
    /\ Get(rows_ticks_a[2], kDay, <<>>) = <<"2", ".", "7">>
    /\ Get(rows_ticks_a[1], kPop, <<>>) = <<"5">>
    /\ Get(rows_ticks_a[2], kPop, <<>>) = <<"9">>
    /\ ticks_cmp.common_days = 1
    /\ ticks_cmp.day_min = Integer(2)
    /\ \E i \in 1..Len(ticks_cmp.metrics) :
          /\ ticks_cmp.metrics[i].metric = kPop
          /\ ticks_cmp.metrics[i].delta_last = Fin(-40)

(***************************************************************************)
(* Properties of main of the analysis tool.                                *)
(***************************************************************************)
\* the rows of tile_metrics.csv and its key columns, as the loader finds them
TileFileRows == IF tiles_path.k = "csv" THEN DictRows(tiles_path) ELSE <<>>
TileFileKeyCols ==
    IF tiles_path.k = "csv" THEN LoadTileKeyCols(tiles_path.header, TileFileRows)
    ELSE NoKeyCols

\* the coordinates of a row: both integers, or unusable
RowX(r) == InsToInt(Cell(r, TileFileKeyCols.xcol))
RowY(r) == InsToInt(Cell(r, TileFileKeyCols.ycol))
HasCoordinates(r) == RowX(r).k = "int" /\ RowY(r).k = "int"
RowsWithCoordinates == { i \in 1..Len(TileFileRows) : HasCoordinates(TileFileRows[i]) }

\* the tile table is missing or unreadable, has no key columns, or has no
\* row with usable coordinates
TileTableFatal ==
    \/ tiles_path.k # "csv"
    \/ TileFileKeyCols = NoKeyCols
    \/ RowsWithCoordinates = {}

HasShortLine(file) ==
    file.k = "csv" /\ \E i \in 1..Len(file.lines) : Len(file.lines[i]) < Len(file.header)

PlacedRows ==
    { i \in RowsWithCoordinates : RowX(TileFileRows[i]).v >= 0 /\ RowY(TileFileRows[i]).v >= 0 }

\* the row-major index of a row in a grid of width w
GridIndex(r, w) == RowY(r).v * w + RowX(r).v

\* the float of a column in a row, None unless finite
FiniteCell(r, col) ==
    The({ IF IsDouble(v) THEN v ELSE None : v \in {DOfFin(InsToFloat(Cell(r, col)))} })

\* the last row written at the index of row i
LastPlacedAt(i, w) ==
    CHOOSE j \in PlacedRows :
        /\ GridIndex(TileFileRows[j], w) = GridIndex(TileFileRows[i], w)
        /\ \A l \in PlacedRows :
              GridIndex(TileFileRows[l], w) = GridIndex(TileFileRows[i], w) => l <= j

\* a hotspot list: each entry is a placed row with its value, the values do
\* not increase, and there are at most k entries
IsHotspotList(list, col, k) ==
    /\ \A n \in 1..Len(list) :
          \E i \in PlacedRows :
              /\ list[n].x = RowX(TileFileRows[i]).v
              /\ list[n].y = RowY(TileFileRows[i]).v
              /\ list[n].value = FiniteCell(TileFileRows[i], col)
    /\ \A n \in 1..(Len(list) - 1) : ~DLess(list[n].value, list[n + 1].value)
    /\ Len(list) <= Max(0, k)

\* C26: the grid of the analysis tool has width max(x) + 1 and height
\* max(y) + 1 over the rows with parseable coordinates; every row with
\* non-negative integer coordinates is written at the row-major index
\* y * w + x, which lies in [0, w * h); a row whose coordinates are absent or
\* negative is never written and never appears in a hotspot list; the entries
\* of a hotspot list are in non-increasing order of value and number at most
\* top-K (none when K is not positive).
C26_GridAndHotspots ==
    (pc = "insights_exited" /\ exit_status = 0) =>
        \A w \in {payload.grid.width}, h \in {payload.grid.height} :
            /\ w = MaxOf({RowX(TileFileRows[i]).v : i \in RowsWithCoordinates}) + 1
            /\ h = MaxOf({RowY(TileFileRows[i]).v : i \in RowsWithCoordinates}) + 1
            /\ \A i \in PlacedRows : GridIndex(TileFileRows[i], w) \in 0..(w * h - 1)
            /\ \A j \in 1..Len(payload.metrics) :
                  payload.metrics[j][1] = "land_value" =>
                      /\ Len(land_grid) = Max(0, w * h)
                      /\ \A i \in PlacedRows :
                            land_grid[GridIndex(TileFileRows[i], w) + 1]
                               = FiniteCell(TileFileRows[LastPlacedAt(i, w)],
                                            payload.metrics[j][2].column)
                      /\ \A c \in 1..Len(land_grid) :
                            land_grid[c] # None =>
                               \E i \in PlacedRows : GridIndex(TileFileRows[i], w) + 1 = c
            /\ \A j \in 1..Len(payload.hotspots) :
                  /\ payload.hotspots[j][1] = payload.metrics[j][1]
                  /\ IsHotspotList(payload.hotspots[j][2], payload.metrics[j][2].column,
                                   args_topk)

\* a row at (-1, 1) with 0.5 among rows at (1, 0) and (0, 1): the grid is
\* 2 x 2, the cell at index 1 of the row is left empty, and the two hotspots
\* are the other rows, the larger first
C26_NegativeRowLeftOut ==
    /\ pc = "insights_exited"
    /\ exit_status = 0
    /\ Len(TileFileRows) = 3
    /\ RowX(TileFileRows[1]) = Integer(-1)
    /\ RowY(TileFileRows[1]) = Integer(1)
    /\ args_topk = 2
    /\ payload.grid = [width |-> 2, height |-> 2, tiles |-> 3]
    /\ land_grid = <<None, DOfDecimal(1, 10), DOfDecimal(7, 10), None>>
    /\ Len(payload.hotspots[1][2]) = 2
    /\ payload.hotspots[1][2][1] = [x |-> 0, y |-> 1, value |-> DOfDecimal(7, 10)]
    /\ payload.hotspots[1][2][2] = [x |-> 1, y |-> 0, value |-> DOfDecimal(1, 10)]

TransformNames == {Targets[t][2] : t \in 1..Len(Targets)}

\* the contents of the raw string literals of a text, as the patcher finds them
RECURSIVE LiteralsFrom(_, _)
LiteralsAt(text, m, content_end) ==
    IF content_end < 0 THEN <<>>
    ELSE <<Slice(text, m.end, content_end)>>
             \o LiteralsFrom(text, content_end + Len(CloseSeq(m.delim)))

LiteralsFrom(text, i) ==
    The({ IF m = NoMatch THEN <<>>
          ELSE LiteralsAt(text, m, find(text, CloseSeq(m.delim), m.end)) :
          m \in {Search(text, i)} })

RawLiterals(text) == LiteralsFrom(text, 0)

RECURSIVE ConcatAll(_)
ConcatAll(seqs) == IF seqs = <<>> THEN <<>> ELSE Head(seqs) \o ConcatAll(Tail(seqs))

\* produced is originals with every content longer than the limit replaced by
\* pieces of at most the chunk size that concatenate to it
RECURSIVE SplitsInto(_, _)
SplitsInto(produced, originals) ==
    IF originals = <<>> THEN produced = <<>>
    ELSE IF Len(Head(originals)) <= MAX_RAW_LITERAL_CONTENT
    THEN /\ produced # <<>>
         /\ Head(produced) = Head(originals)
         /\ SplitsInto(Tail(produced), Tail(originals))
    ELSE \E k \in 1..Len(produced) :
            /\ \A j \in 1..k : Len(produced[j]) <= RAW_CHUNK_SIZE
            /\ ConcatAll(SubSeq(produced, 1, k)) = Head(originals)
            /\ SplitsInto(SubSeq(produced, k + 1, Len(produced)), Tail(originals))

Idempotent(transform_fn, text) ==
    \A r \in {Transform(transform_fn, text)} :
        Transform(transform_fn, r.text) = Transformed(r.text, FALSE)

\* C28: each of the three transforms, applied to its own output, returns it
\* unchanged with changed = false; a run of the patcher that follows a run
\* without --dry-run writes no file, reports no change and leaves every file
\* as it found it; and the raw string literals of the output of
\* split_oversize_raw_string_literals are those of its input, with every
\* content longer than the limit replaced by chunks of at most the chunk size
\* whose concatenation is that content.
C28_TransformsIdempotent ==
    pc = "fix_msvc_issues" =>
        /\ \A p \in Paths :
              repo[p].k = "file" =>
                  /\ \A transform_fn \in TransformNames : Idempotent(transform_fn, repo[p].text)
                  /\ \A split \in {split_oversize_raw_string_literals(
                                       repo[p].text, MAX_RAW_LITERAL_CONTENT, RAW_CHUNK_SIZE)} :
                        SplitsInto(RawLiterals(split.text), RawLiterals(repo[p].text))
        /\ wrote_before =>
              /\ repo = repo_before
              /\ written = {}
              /\ \A p \in Paths : ~changed_by[p]

\* a second run after a writing run that split the literal R"(abcab)" of an
\* indented line into three chunks
C28_SecondRunAfterSplit ==
    /\ pc = "fix_msvc_issues"
    /\ runs = 2
    /\ wrote_before
    /\ written = {}
    /\ repo[DossierPath].text =
          <<" ", " ", " ", " ", "R", "\"", "(", "a", "b", ")", "\"", "\n",
            " ", " ", "R", "\"", "(", "c", "a", ")", "\"", "\n",
            " ", " ", "R", "\"", "(", "b", ")", "\"">>
====
